---- MODULE Spec2Model ----
(***************************************************************************)
(* Model of the dally_backend bookkeeping service: the transaction ledger  *)
(* (bookkeeping/models.py, serializers.py, views.py), the summary          *)
(* calculators (bookkeeping/services/summaries.py), the Nigerian tax       *)
(* calculator (bookkeeping/services/tax/), the cached reads and the cache  *)
(* version counter (bookkeeping/apis.py, signals.py) and the password      *)
(* reset by pin and token (account/).                                      *)
(*                                                                         *)
(* Representation.  A Python Decimal with two decimal places (every        *)
(* DecimalField of the models) is held as the integer number of its        *)
(* hundredths: Decimal('25.50') is 2550.  The tax calculator works on      *)
(* amounts above 2^31 hundredths, so there an amount is the pair           *)
(* <<whole, hundredths>> with 0 <= hundredths < 100.                       *)
(***************************************************************************)
EXTENDS Integers, Sequences, FiniteSets, TLC

VARIABLES
    businesses,     \* Business table: sequence of rows, the id is the index
    transactions,   \* Transaction table with the TransactionItem rows of each
    inventory,      \* InventoryPeriod table: set of rows
    taxable_income, \* argument of the tax calculator call in progress
    tax_result,     \* what that call returned (<<>> before it returns)
    calculator,     \* a NigeriaTaxCalculator2026 and the revenue and expenses
                    \* it is called with
    vat_payable,    \* what calculate_vat returned (<<>> before it returns)
    tax_summary,    \* what calculate_tax_summary returned (<<>> before)
    cache,          \* django.core.cache: the backend and the keys it holds
    auth_users,     \* account.User table: the password of each user
    password_reset_otps, \* PasswordResetOTP table: at most one row a user
    requests,       \* calls in progress or returned: position, local
                    \* variables and response of each
    reset_tokens    \* the password-reset tokens handed out to clients

vars == <<businesses, transactions, inventory, taxable_income, tax_result,
          calculator, vat_payable, tax_summary,
          cache, auth_users, password_reset_otps, requests, reset_tokens>>

(***************************************************************************)
(* Bounds of the model and input domains.                                  *)
(***************************************************************************)
MaxBusinesses == 2
MaxTx == 2
MaxItems == 2
MaxSnapshots == 2
MaxDate == 2
MaxWorkers == 3
MaxVersion == 3
MaxTokens == 2

Users == {"A", "B"}
Dates == 1..MaxDate
BusinessIds == 1..MaxBusinesses
\* the workers that serve requests side by side
Workers == 1..MaxWorkers
\* null foreign key / absent business_id parameter
NoBusiness == 0
\* SQL NULL in Transaction.expense_type
NULL == "NULL"
TransactionTypes == {"income", "expense"}
\* the values the column can hold: its two choices, NULL and blank
ExpenseTypes == {"operating", "inventory", NULL, ""}

(***************************************************************************)
(* bookkeeping/services/tax/config.py                                      *)
(***************************************************************************)
PIT_EXEMPT_THRESHOLD == 800000
\* Decimal("Infinity"): the upper limit of the last band
Infinity == -1
\* (upper limit in naira, marginal rate in percent)
\* faulty variant: the second band is taxed at a lower rate than the first
PERSONAL_INCOME_TAX_BANDS_Regressive ==
    << <<2200000, 15>>, <<11200000, 12>>, <<24200000, 21>>,
       <<49200000, 23>>, <<Infinity, 25>> >>

PERSONAL_INCOME_TAX_BANDS_2026 ==
    << <<2200000, 15>>, <<11200000, 18>>, <<24200000, 21>>,
       <<49200000, 23>>, <<Infinity, 25>> >>
\* Decimal("0.075"), in thousandths
VAT_RATE == 75
TAX_YEAR == 2026

(***************************************************************************)
(* Decimal arithmetic on <<whole, hundredths>> pairs.                      *)
(***************************************************************************)
DecLe(a, b) == a[1] < b[1] \/ (a[1] = b[1] /\ a[2] <= b[2])

DecSub(a, b) ==
    IF a[2] >= b[2] THEN <<a[1] - b[1], a[2] - b[2]>>
    ELSE <<a[1] - b[1] - 1, a[2] + 100 - b[2]>>

DecMin(a, b) == IF DecLe(a, b) THEN a ELSE b

DecMax(a, b) == IF DecLe(a, b) THEN b ELSE a

\* quantize(Decimal("1"), rounding=ROUND_HALF_UP) of n / 100, n >= 0
RoundHalfUp100(n) == (n + 50) \div 100

(***************************************************************************)
(* NigeriaTaxCalculator2026.calculate_personal_income_tax.                 *)
(* The argument taxable_income_kobo is 100 * income[1] + income[2].  The   *)
(* accumulated tax_payable is the pair <<kobo, hundredths of a kobo>>: a   *)
(* band portion of w naira and h kobo at r percent adds w * r kobo and     *)
(* h * r hundredths of a kobo.                                             *)
(***************************************************************************)
\* faulty variant: only the band the income ends in is taxed
TaxableInBand_LastBandOnly(chargeable_income, previous_limit, band_upper) ==
    IF band_upper # Infinity /\ ~DecLe(chargeable_income, <<band_upper, 0>>)
    THEN <<0, 0>>
    ELSE DecSub(chargeable_income, <<previous_limit, 0>>)

\* faulty variant: the portion is not capped at the width of the band
TaxableInBand_Uncapped(chargeable_income, previous_limit, band_upper) ==
    DecSub(chargeable_income, <<previous_limit, 0>>)

TaxableInBand(chargeable_income, previous_limit, band_upper) ==
    IF band_upper = Infinity
    THEN DecSub(chargeable_income, <<previous_limit, 0>>)
    ELSE DecMin(DecSub(chargeable_income, <<previous_limit, 0>>),
                <<band_upper - previous_limit, 0>>)

RECURSIVE BandWalk(_, _, _, _)
BandWalk(chargeable_income, i, previous_limit, tax_payable) ==
    IF i > Len(PERSONAL_INCOME_TAX_BANDS_2026) THEN tax_payable
    ELSE IF DecLe(chargeable_income, <<previous_limit, 0>>) THEN tax_payable
    ELSE LET band_upper == PERSONAL_INCOME_TAX_BANDS_2026[i][1]
             band_rate == PERSONAL_INCOME_TAX_BANDS_2026[i][2]
             taxable_in_band ==
                 TaxableInBand(chargeable_income, previous_limit, band_upper)
             added == IF DecLe(taxable_in_band, <<0, 0>>) THEN tax_payable
                      ELSE <<tax_payable[1] + taxable_in_band[1] * band_rate,
                             tax_payable[2] + taxable_in_band[2] * band_rate>>
         IN BandWalk(chargeable_income, i + 1, band_upper, added)

calculate_personal_income_tax(income) ==
    IF income[1] < 0 \/ income = <<0, 0>> THEN 0
    ELSE LET gross_income == income
             chargeable_income ==
                 DecMax(<<0, 0>>, DecSub(gross_income, <<PIT_EXEMPT_THRESHOLD, 0>>))
         IN IF chargeable_income = <<0, 0>> THEN 0
            ELSE LET tax_payable == BandWalk(chargeable_income, 1, 0, <<0, 0>>)
                 IN tax_payable[1] + RoundHalfUp100(tax_payable[2])

(***************************************************************************)
(* NigeriaTaxCalculator2026.calculate_vat and calculate_tax_summary, on    *)
(* integer kobo arguments.                                                 *)
(***************************************************************************)
\* faulty variant: the fraction of a kobo is dropped
RoundDown1000(n) == n \div 1000

\* quantize(Decimal("1"), rounding=ROUND_HALF_UP) of n / 1000, n >= 0
RoundHalfUp1000(n) == (n + 500) \div 1000

\* revenue_kobo * VAT_RATE is taken in two parts, the thousands of
\* revenue_kobo (whose product with 0.075 is whole) and the rest
calculate_vat(vat_enabled, revenue_kobo) ==
    IF ~vat_enabled \/ revenue_kobo <= 0 THEN 0
    ELSE (revenue_kobo \div 1000) * VAT_RATE
         + RoundHalfUp1000((revenue_kobo % 1000) * VAT_RATE)

\* Decimal(pit) / net_profit by long division: <<quotient, remainder>> of
\* pit * 10^places by net_profit
RECURSIVE DecimalDigits(_, _, _)
DecimalDigits(pit, net_profit, places) ==
    IF places = 0 THEN <<pit \div net_profit, pit % net_profit>>
    ELSE LET shorter == DecimalDigits(pit, net_profit, places - 1)
         IN <<shorter[1] * 10 + (shorter[2] * 10) \div net_profit,
              (shorter[2] * 10) % net_profit>>

\* quantize(Decimal("0.0001")) of pit / net_profit under the default context
\* rounding, ROUND_HALF_EVEN; the result in ten-thousandths
QuantizeRate(pit, net_profit) ==
    LET rate == DecimalDigits(pit, net_profit, 4)
        q == rate[1]
        r == rate[2]
    IN IF 2 * r > net_profit THEN q + 1
       ELSE IF 2 * r < net_profit THEN q
       ELSE IF q % 2 = 0 THEN q ELSE q + 1

\* faulty variant: a loss is carried as a negative profit
TaxableProfit_Unclamped(revenue, expenses) == revenue - expenses

\* net_profit = max(Decimal("0.00"), revenue - expenses)
TaxableProfit(revenue, expenses) ==
    IF revenue - expenses > 0 THEN revenue - expenses ELSE 0

calculate_tax_summary(vat_enabled, total_revenue_kobo, total_expenses_kobo) ==
    LET revenue == total_revenue_kobo
        expenses == total_expenses_kobo
        net_profit == TaxableProfit(revenue, expenses)
        pit == calculate_personal_income_tax(<<net_profit \div 100, net_profit % 100>>)
        vat == calculate_vat(vat_enabled, revenue)
    IN [total_revenue |-> revenue,
        total_expenses |-> expenses,
        net_profit |-> net_profit,
        taxable_income |-> net_profit,
        estimated_income_tax |-> pit,
        effective_tax_rate |->
            IF net_profit > 0 THEN QuantizeRate(pit, net_profit) ELSE 0,
        vat_payable |-> vat,
        tax_year |-> TAX_YEAR]

(***************************************************************************)
(* Django ORM pieces used by bookkeeping/services/summaries.py.  A         *)
(* queryset over Transaction is the set of the ids (indices) of its rows.  *)
(***************************************************************************)
RECURSIVE SumTotalAmount(_, _)
SumTotalAmount(txs, qs) ==
    IF qs = {} THEN 0
    ELSE LET i == CHOOSE j \in qs : TRUE
         IN txs[i].total_amount + SumTotalAmount(txs, qs \ {i})

\* aggregate(total=Sum('total_amount'))['total']: None (<<>>) over no rows
AggregateSum(txs, qs) == IF qs = {} THEN <<>> ELSE <<SumTotalAmount(txs, qs)>>

\* `value or 0`: None and a zero Decimal are both falsy
OrZero(total) == IF total = <<>> THEN 0 ELSE IF total[1] = 0 THEN 0 ELSE total[1]

\* queryset.filter(business_id=business_id) under `if business_id:`
BusinessFilter(txs, qs, business_id) ==
    IF business_id # NoBusiness
    THEN {i \in qs : txs[i].business = business_id}
    ELSE qs

OfType(txs, qs, transaction_type) ==
    {i \in qs : txs[i].transaction_type = transaction_type}

\* faulty variant: the rows are not filtered by transaction_type
ExpensesOfType_AnyTransaction(txs, qs, expense_type) ==
    {i \in qs : txs[i].expense_type = expense_type}

ExpensesOfType(txs, qs, expense_type) ==
    {i \in qs : txs[i].transaction_type = "expense"
                /\ txs[i].expense_type = expense_type}

(***************************************************************************)
(* daily_summary                                                           *)
(***************************************************************************)
\* faulty variant: the queryset is not filtered by user
DailyQuerySet_AnyOwner(txs, user, target_date) ==
    {i \in DOMAIN txs : /\ txs[i].date = target_date
                        /\ txs[i].is_deleted = FALSE}

DailyQuerySet(txs, user, target_date) ==
    {i \in DOMAIN txs : /\ txs[i].user = user
                        /\ txs[i].date = target_date
                        /\ txs[i].is_deleted = FALSE}

daily_summary(txs, user, target_date, business_id) ==
    LET queryset == BusinessFilter(txs, DailyQuerySet(txs, user, target_date),
                                   business_id)
        income == OrZero(AggregateSum(txs, OfType(txs, queryset, "income")))
        expense == OrZero(AggregateSum(txs, OfType(txs, queryset, "expense")))
    IN [date |-> target_date,
        currency |-> "NGN",
        total_income |-> income,
        total_expense |-> expense,
        net_cash |-> income - expense]

(***************************************************************************)
(* date_range_summary                                                      *)
(***************************************************************************)
\* faulty variant: the queryset is not filtered by date
RangeQuerySet_AnyDate(txs, user, start_date, end_date) ==
    {i \in DOMAIN txs : /\ txs[i].user = user
                        /\ txs[i].is_deleted = FALSE}

\* faulty variant: the queryset is not filtered by is_deleted
RangeQuerySet_WithDeleted(txs, user, start_date, end_date) ==
    {i \in DOMAIN txs : /\ txs[i].user = user
                        /\ txs[i].date >= start_date
                        /\ txs[i].date <= end_date}

RangeQuerySet(txs, user, start_date, end_date) ==
    {i \in DOMAIN txs : /\ txs[i].user = user
                        /\ txs[i].date >= start_date
                        /\ txs[i].date <= end_date
                        /\ txs[i].is_deleted = FALSE}

date_range_summary(txs, user, start_date, end_date, business_id) ==
    LET queryset == BusinessFilter(txs,
                        RangeQuerySet(txs, user, start_date, end_date),
                        business_id)
        income == OrZero(AggregateSum(txs, OfType(txs, queryset, "income")))
        expense == OrZero(AggregateSum(txs, OfType(txs, queryset, "expense")))
    IN [start_date |-> start_date,
        end_date |-> end_date,
        currency |-> "NGN",
        total_income |-> income,
        total_expense |-> expense,
        net_profit |-> income - expense]

(***************************************************************************)
(* profit_and_loss                                                         *)
(***************************************************************************)
\* summaries.py imports Transaction, TransactionItem and InventoryPeriod
\* from bookkeeping.models, and User: the name Business is not bound there
ImportedNames == {"date", "timedelta", "Decimal", "Sum", "Q", "User",
                  "Transaction", "TransactionItem", "InventoryPeriod"}

\* Business.objects.filter(user=user).first(): the user's first business
FirstBusinessOf(bizs, user) ==
    LET own == {b \in DOMAIN bizs : bizs[b].user = user}
    IN IF own = {} THEN NoBusiness
       ELSE CHOOSE b \in own : \A c \in own : b <= c

\* "Determine business context": the lookup runs inside try/except Exception,
\* so the NameError of an unbound Business leaves business_id = None
ResolveBusinessId(bizs, user, business_id) ==
    IF business_id # NoBusiness THEN business_id
    ELSE IF "Business" \in ImportedNames THEN FirstBusinessOf(bizs, user)
    ELSE NoBusiness

\* faulty variant: the latest snapshot on or before end_date is taken
ClosingStockValue_Latest(inv, business_id, end_date) ==
    LET found == {p \in inv : p.business = business_id /\ p.period_end <= end_date}
    IN IF found = {} THEN 0
       ELSE (CHOOSE p \in found : \A q \in found : q.period_end <= p.period_end)
                .closing_value

\* InventoryPeriod.objects.filter(business_id=.., period_end=end_date).first()
ClosingStockValue(inv, business_id, end_date) ==
    LET found == {p \in inv : p.business = business_id /\ p.period_end = end_date}
    IN IF found = {} THEN 0
       ELSE (CHOOSE p \in found : TRUE).closing_value

\* faulty variant: a snapshot dated on start_date counts as opening stock
OpeningStockValue_OnStart(inv, business_id, start_date) ==
    LET found == {p \in inv : /\ p.business = business_id
                              /\ p.period_end <= start_date}
    IN IF found = {} THEN 0
       ELSE (CHOOSE p \in found : \A q \in found : q.period_end <= p.period_end)
                .closing_value

\* InventoryPeriod.objects.filter(business_id=.., period_end__lte=start - 1 day)
\*     .order_by('-period_end').first()
OpeningStockValue(inv, business_id, start_date) ==
    LET opening_stock_date == start_date - 1
        found == {p \in inv : /\ p.business = business_id
                              /\ p.period_end <= opening_stock_date}
    IN IF found = {} THEN 0
       ELSE (CHOOSE p \in found : \A q \in found : q.period_end <= p.period_end)
                .closing_value

\* faulty variant: no max(.., 0)
Cogs_Unclamped(goods_available, closing_stock_value) ==
    goods_available - closing_stock_value

\* max(goods_available - closing_stock_value, Decimal('0.00'))
Cogs(goods_available, closing_stock_value) ==
    IF goods_available - closing_stock_value > 0
    THEN goods_available - closing_stock_value
    ELSE 0

\* faulty variant: the expenses are not recomputed, operating + legacy is kept
IndividualOperatingExpenses_NotRecomputed(txs, queryset) ==
    OrZero(AggregateSum(txs, ExpensesOfType(txs, queryset, "operating")))
    + OrZero(AggregateSum(txs, ExpensesOfType(txs, queryset, NULL)))

\* individual mode: total_operating_expenses = every expense of the queryset
IndividualOperatingExpenses(txs, queryset) ==
    OrZero(AggregateSum(txs, OfType(txs, queryset, "expense")))

\* gross_profit = sales - cogs; net_profit = gross_profit - total_operating_expenses
GrossProfit(sales, cogs) == sales - cogs

\* faulty variant: a loss is clamped to zero
NetProfit_Clamped(gross_profit, total_operating_expenses) ==
    IF gross_profit - total_operating_expenses > 0
    THEN gross_profit - total_operating_expenses
    ELSE 0

NetProfit(gross_profit, total_operating_expenses) ==
    gross_profit - total_operating_expenses

\* the branch taken at `if not business_id:` after the business context
ProfitAndLossMode(bizs, user, business_id) ==
    IF ResolveBusinessId(bizs, user, business_id) = NoBusiness
    THEN "individual" ELSE "business"

profit_and_loss(txs, bizs, inv, user, start_date, end_date, business_id) ==
    LET queryset == BusinessFilter(txs,
                        RangeQuerySet(txs, user, start_date, end_date),
                        business_id)
        sales == OrZero(AggregateSum(txs, OfType(txs, queryset, "income")))
        purchases == OrZero(AggregateSum(txs,
                         ExpensesOfType(txs, queryset, "inventory")))
        operating_expenses == OrZero(AggregateSum(txs,
                                  ExpensesOfType(txs, queryset, "operating")))
        legacy_expenses == OrZero(AggregateSum(txs,
                               ExpensesOfType(txs, queryset, NULL)))
        resolved == ResolveBusinessId(bizs, user, business_id)
        individual == (ProfitAndLossMode(bizs, user, business_id) = "individual")
        closing_stock_value ==
            IF individual THEN 0 ELSE ClosingStockValue(inv, resolved, end_date)
        opening_stock_value ==
            IF individual THEN 0 ELSE OpeningStockValue(inv, resolved, start_date)
        inventory_purchases == IF individual THEN 0 ELSE purchases
        total_operating_expenses ==
            IF individual THEN IndividualOperatingExpenses(txs, queryset)
            ELSE operating_expenses + legacy_expenses
        goods_available == opening_stock_value + inventory_purchases
        cogs == IF individual THEN 0 ELSE Cogs(goods_available, closing_stock_value)
        gross_profit == GrossProfit(sales, cogs)
        net_profit == NetProfit(gross_profit, total_operating_expenses)
    IN [start_date |-> start_date,
        end_date |-> end_date,
        currency |-> "NGN",
        total_sales |-> sales,
        opening_stock |-> opening_stock_value,
        inventory_purchases |-> inventory_purchases,
        closing_stock |-> closing_stock_value,
        cogs |-> cogs,
        operating_expenses |-> total_operating_expenses,
        gross_profit |-> gross_profit,
        net_profit |-> net_profit]

(***************************************************************************)
(* TaxView.get (bookkeeping/apis.py; TaxViewSet in views.py has the same   *)
(* body).  A year request covers every date of the model, a month request  *)
(* the one date it names.  Reading a key the P&L record does not carry     *)
(* raises KeyError: the request ends in a server error.                    *)
(***************************************************************************)
TaxPeriods == {<<"year", 0>>} \cup {<<"month", m>> : m \in Dates}

PeriodStart(period) == IF period[1] = "year" THEN 1 ELSE period[2]

PeriodEnd(period) == IF period[1] = "year" THEN MaxDate ELSE period[2]

TaxView_get(txs, bizs, inv, user, period, business_id, vat_enabled) ==
    LET start_date == PeriodStart(period)
        end_date == PeriodEnd(period)
        pl_data == profit_and_loss(txs, bizs, inv, user, start_date, end_date,
                                   business_id)
    IN IF "total_sales" \in DOMAIN pl_data /\ "total_purchases" \in DOMAIN pl_data
       THEN [status |-> 200,
             data |-> calculate_tax_summary(vat_enabled, pl_data.total_sales,
                                            pl_data.total_purchases),
             period_start |-> start_date,
             period_end |-> end_date]
       ELSE [status |-> 500, error |-> "KeyError"]

(***************************************************************************)
(* SummaryViewSet.range and SummaryViewSet.profit_loss (bookkeeping/apis.py *)
(* and views.py, the same bodies).  A query parameter is <<>> when absent. *)
(* The serializers divide each amount by 100: the decimal n / 10^4 of an   *)
(* amount of n hundredths is written <<n, 4>>.                             *)
(***************************************************************************)
\* str(Decimal(str(instance[field])) / Decimal('100'))
KoboToNaira(amount) == <<amount, 4>>

DateRangeSummarySerializer(summary) ==
    [summary EXCEPT !.total_income = KoboToNaira(summary.total_income),
                    !.total_expense = KoboToNaira(summary.total_expense),
                    !.net_profit = KoboToNaira(summary.net_profit)]

\* fields of ProfitLossSerializer
ProfitLossFields == {"start_date", "end_date", "currency", "total_sales",
                     "total_purchases", "gross_profit"}

\* faulty variant: the order of the two dates is not checked
SummaryViewSet_range_Unchecked(txs, user, start_date, end_date, business_id) ==
    IF start_date = <<>> \/ end_date = <<>>
    THEN [status |-> 400,
          error |-> "start_date and end_date parameters are required (YYYY-MM-DD)"]
    ELSE [status |-> 200,
          data |-> DateRangeSummarySerializer(
                       date_range_summary(txs, user, start_date[1], end_date[1],
                                          business_id))]

SummaryViewSet_range(txs, user, start_date, end_date, business_id) ==
    IF start_date = <<>> \/ end_date = <<>>
    THEN [status |-> 400,
          error |-> "start_date and end_date parameters are required (YYYY-MM-DD)"]
    ELSE IF start_date[1] > end_date[1]
    THEN [status |-> 400,
          error |-> "start_date must be before or equal to end_date"]
    ELSE [status |-> 200,
          data |-> DateRangeSummarySerializer(
                       date_range_summary(txs, user, start_date[1], end_date[1],
                                          business_id))]

\* serializer.data reads every declared field of the statement: a field the
\* statement does not carry raises KeyError
SummaryViewSet_profit_loss(txs, bizs, inv, user, start_date, end_date, business_id) ==
    IF start_date = <<>> \/ end_date = <<>>
    THEN [status |-> 400,
          error |-> "start_date and end_date parameters are required (YYYY-MM-DD)"]
    ELSE IF start_date[1] > end_date[1]
    THEN [status |-> 400,
          error |-> "start_date must be before or equal to end_date"]
    ELSE LET pl_data == profit_and_loss(txs, bizs, inv, user, start_date[1],
                                        end_date[1], business_id)
         IN IF ProfitLossFields \subseteq DOMAIN pl_data
            THEN [status |-> 200,
                  data |-> [f \in ProfitLossFields |->
                               IF f \in {"total_sales", "total_purchases",
                                         "gross_profit"}
                               THEN KoboToNaira(pl_data[f]) ELSE pl_data[f]]]
            ELSE [status |-> 500, error |-> "KeyError"]

(***************************************************************************)
(* TransactionViewSet read side (bookkeeping/views.py)                     *)
(***************************************************************************)
\* get_queryset without query parameters
get_queryset(txs, user) ==
    {i \in DOMAIN txs : txs[i].user = user /\ txs[i].is_deleted = FALSE}

\* list: the ids returned to the user
TransactionViewSet_list(txs, user) == get_queryset(txs, user)

\* retrieve: get_object() over get_queryset(), 404 when the id is not in it
TransactionViewSet_retrieve(txs, user, pk) ==
    IF pk \in get_queryset(txs, user)
    THEN [status |-> 200, data |-> txs[pk]]
    ELSE [status |-> 404]

(***************************************************************************)
(* The cache (django.core.cache) and the receivers of                      *)
(* bookkeeping/signals.py.  A cache is its backend and the keys it holds;  *)
(* the settings are not part of the sources, so the backend is a parameter *)
(* of a specification: the dummy backend stores nothing, the others store  *)
(* what they are given.  A key is a tuple of the parts of its string.      *)
(***************************************************************************)
DummyCache == [backend |-> "dummy", data |-> <<>>]

\* a storing backend with no key set
EmptyCache == [backend |-> "locmem", data |-> <<>>]

\* cache.get(key): None is <<>>, a value v is <<v>>
cache_get(c, key) == IF key \in DOMAIN c.data THEN <<c.data[key]>> ELSE <<>>

\* cache.set(key, value)
cache_set(c, key, value) ==
    IF c.backend = "dummy" THEN c
    ELSE [c EXCEPT !.data = (key :> value) @@ c.data]

\* f'user_cache_version:{user_id}'
version_key(user_id) == <<"user_cache_version", user_id>>

\* increment_user_cache_version run from start to end with no other call
\* in between: cache.incr, or cache.set(version_key, 1) when the key is
\* missing
increment_user_cache_version(c, user_id) ==
    IF version_key(user_id) \in DOMAIN c.data
    THEN [c EXCEPT !.data[version_key(user_id)] = @ + 1]
    ELSE cache_set(c, version_key(user_id), 1)

\* receiver of post_save and post_delete of Transaction
transaction_changed(c, user_id) == increment_user_cache_version(c, user_id)

\* receiver of post_save and post_delete of TransactionItem, for an item of
\* a transaction of user_id
transaction_item_changed(c, user_id) == increment_user_cache_version(c, user_id)

\* the receivers run for n saved or deleted rows of one user
RECURSIVE ReceiversRun(_, _, _)
ReceiversRun(c, user_id, n) ==
    IF n = 0 THEN c
    ELSE ReceiversRun(increment_user_cache_version(c, user_id), user_id, n - 1)

(***************************************************************************)
(* The cached reads of bookkeeping/apis.py: TransactionView.get and        *)
(* SummaryView.get.  The query parameters of the listing are its type      *)
(* filter, <<>> when absent; a page holds 20 rows, more than the model     *)
(* has.  The dates of the model all lie in the last seven days, and the    *)
(* line items carry no category.                                           *)
(***************************************************************************)
\* f"transaction_list:{user.id}:{urlencode(sorted(params.items()))}"
transaction_list_key(user, params) == <<"transaction_list", user, params>>

\* f'summary:{user.id}'
summary_key(user) == <<"summary", user>>

\* TransactionListSerializer(page, many=True).data under its count
TransactionListData(txs, user, params) ==
    LET queryset == {i \in DOMAIN txs :
                        /\ txs[i].user = user
                        /\ txs[i].is_deleted = FALSE
                        /\ params.type # <<>> =>
                               txs[i].transaction_type = params.type[1]}
    IN [count |-> Cardinality(queryset),
        results |-> [i \in queryset |->
                        [transaction_type |-> txs[i].transaction_type,
                         date |-> txs[i].date,
                         total_amount |-> txs[i].total_amount,
                         items_count |-> Len(txs[i].items)]]]

\* the response of TransactionView.get
TransactionView_response(c, txs, user, params) ==
    LET cached_data == cache_get(c, transaction_list_key(user, params))
    IN IF cached_data # <<>>
       THEN [status |-> 200, data |-> cached_data[1]]
       ELSE [status |-> 200, data |-> TransactionListData(txs, user, params)]

\* order_by('-total_amount').first() and order_by('total_amount').first():
\* the total of the row, 0 when there is none
HighestTotal(txs, qs) ==
    IF qs = {} THEN 0
    ELSE CHOOSE a \in {txs[i].total_amount : i \in qs} :
             \A i \in qs : txs[i].total_amount <= a

LowestTotal(txs, qs) ==
    IF qs = {} THEN 0
    ELSE CHOOSE a \in {txs[i].total_amount : i \in qs} :
             \A i \in qs : txs[i].total_amount >= a

\* the data SummaryView.get computes
SummaryData(txs, user) ==
    LET base_qs == {i \in DOMAIN txs :
                       txs[i].user = user /\ txs[i].is_deleted = FALSE}
        income == OfType(txs, base_qs, "income")
        expense == OfType(txs, base_qs, "expense")
    IN [highest_income |-> HighestTotal(txs, income),
        lowest_income |-> LowestTotal(txs, income),
        highest_expense |-> HighestTotal(txs, expense),
        lowest_expense |-> LowestTotal(txs, expense),
        highest_weekly_income |-> HighestTotal(txs, income),
        lowest_weekly_income |-> LowestTotal(txs, income),
        highest_weekly_expense |-> HighestTotal(txs, expense),
        lowest_weekly_expense |-> LowestTotal(txs, expense)]

\* the response of SummaryView.get
SummaryView_response(c, txs, user) ==
    LET cached_data == cache_get(c, summary_key(user))
    IN IF cached_data # <<>>
       THEN [status |-> 200, data |-> cached_data[1]]
       ELSE [status |-> 200, data |-> SummaryData(txs, user)]

\* TransactionView.get: a miss computes the listing and caches it
TransactionView_get(user, params) ==
    /\ cache' = IF cache_get(cache, transaction_list_key(user, params)) # <<>>
                THEN cache
                ELSE cache_set(cache, transaction_list_key(user, params),
                               TransactionListData(transactions, user, params))
    /\ UNCHANGED <<businesses, transactions, inventory, taxable_income,
                   tax_result, calculator, vat_payable, tax_summary,
                   auth_users, password_reset_otps, requests, reset_tokens>>

\* SummaryView.get: a miss computes the figures and caches them
SummaryView_get(user) ==
    /\ cache' = IF cache_get(cache, summary_key(user)) # <<>>
                THEN cache
                ELSE cache_set(cache, summary_key(user),
                               SummaryData(transactions, user))
    /\ UNCHANGED <<businesses, transactions, inventory, taxable_income,
                   tax_result, calculator, vat_payable, tax_summary,
                   auth_users, password_reset_otps, requests, reset_tokens>>

(***************************************************************************)
(* increment_user_cache_version step by step, as several workers run it    *)
(* side by side.  cache.incr is one step of the backend: it adds one to    *)
(* the key, or raises ValueError when the key is missing; the handler of   *)
(* the exception is a later step.  A request keeps the version its owner   *)
(* had when the call began (0 for a missing key).                          *)
(***************************************************************************)
\* the value under the version key, 0 when the key is missing
CurrentVersion(c, user_id) ==
    IF version_key(user_id) \in DOMAIN c.data
    THEN c.data[version_key(user_id)] ELSE 0

\* a receiver calls increment_user_cache_version(user_id)
increment_user_cache_version_call(w, user_id) ==
    /\ requests[w].pc \in {"idle", "returned"}
    /\ CurrentVersion(cache, user_id) < MaxVersion
    /\ requests' = [requests EXCEPT ![w] =
           [op |-> "increment_user_cache_version", pc |-> "try",
            user_id |-> user_id,
            began |-> CurrentVersion(cache, user_id)]]
    /\ UNCHANGED <<businesses, transactions, inventory, taxable_income,
                   tax_result, calculator, vat_payable, tax_summary,
                   cache, auth_users, password_reset_otps, reset_tokens>>

\* try: cache.incr(version_key)
increment_user_cache_version_try(w) ==
    /\ requests[w].pc = "try"
    /\ LET key == version_key(requests[w].user_id)
       IN IF key \in DOMAIN cache.data
          THEN /\ cache' = [cache EXCEPT !.data[key] = @ + 1]
               /\ requests' = [requests EXCEPT ![w].pc = "returned"]
          ELSE /\ cache' = cache
               /\ requests' = [requests EXCEPT ![w].pc = "except"]
    /\ UNCHANGED <<businesses, transactions, inventory, taxable_income,
                   tax_result, calculator, vat_payable, tax_summary,
                   auth_users, password_reset_otps, reset_tokens>>

\* except ValueError: cache.set(version_key, 1, timeout=None)
increment_user_cache_version_except(w) ==
    /\ requests[w].pc = "except"
    /\ cache' = cache_set(cache, version_key(requests[w].user_id), 1)
    /\ requests' = [requests EXCEPT ![w].pc = "returned"]
    /\ UNCHANGED <<businesses, transactions, inventory, taxable_income,
                   tax_result, calculator, vat_payable, tax_summary,
                   auth_users, password_reset_otps, reset_tokens>>

(***************************************************************************)
(* Write side.  Transaction.calculate_total and Transaction.save           *)
(* (bookkeeping/models.py): saving a row that already exists recomputes    *)
(* total_amount from its items, zero when it has none.                     *)
(***************************************************************************)
RECURSIVE SumSeq(_)
SumSeq(amounts) ==
    IF amounts = <<>> THEN 0 ELSE Head(amounts) + SumSeq(Tail(amounts))

\* self.items.aggregate(total=Sum('amount'))['total'] or Decimal('0.00')
calculate_total(tx) == SumSeq(tx.items)

\* Transaction.save() of a row that exists in the table (is_update)
SavedRow(tx) == [tx EXCEPT !.total_amount = calculate_total(tx)]

\* an optional request field: <<>> when absent, <<value>> when present
Optional(S) == {<<>>} \cup {<<v>> : v \in S}

Given(field, old) == IF field = <<>> THEN old ELSE field[1]

\* BusinessViewSet.perform_create: serializer.save(user=request.user)
Business_create(user) ==
    /\ Len(businesses) < MaxBusinesses
    /\ businesses' = Append(businesses, [user |-> user])
    /\ UNCHANGED <<transactions, inventory, taxable_income, tax_result,
                 calculator, vat_payable, tax_summary,
                 cache, auth_users, password_reset_otps, requests, reset_tokens, reset_tokens>>

\* Transaction.objects.create(...) with an explicit total and no items
\* (tests.py, the admin): a new row is saved as given
Transaction_objects_create(user, business, transaction_type, expense_type, date, total_amount) ==
    /\ Len(transactions) < MaxTx
    /\ business = NoBusiness \/ business \in DOMAIN businesses
    /\ transactions' = Append(transactions,
           [user |-> user, business |-> business,
            transaction_type |-> transaction_type,
            expense_type |-> expense_type, date |-> date,
            total_amount |-> total_amount, is_deleted |-> FALSE,
            items |-> <<>>])
    /\ cache' = transaction_changed(cache, user)
    /\ UNCHANGED <<businesses, inventory, taxable_income, tax_result,
                 calculator, vat_payable, tax_summary,
                 auth_users, password_reset_otps, requests, reset_tokens>>

\* TransactionItem.objects.create(transaction=.., amount=..): the parent's
\* total_amount is left as it is
TransactionItem_objects_create(pk, amount) ==
    /\ pk \in DOMAIN transactions
    /\ Len(transactions[pk].items) < MaxItems
    /\ transactions' = [transactions EXCEPT
           ![pk].items = Append(transactions[pk].items, amount)]
    /\ cache' = transaction_item_changed(cache, transactions[pk].user)
    /\ UNCHANGED <<businesses, inventory, taxable_income, tax_result,
                 calculator, vat_payable, tax_summary,
                 auth_users, password_reset_otps, requests, reset_tokens>>

\* transaction.save() on an existing row
Transaction_save(pk) ==
    /\ pk \in DOMAIN transactions
    /\ transactions' = [transactions EXCEPT ![pk] = SavedRow(transactions[pk])]
    /\ cache' = transaction_changed(cache, transactions[pk].user)
    /\ UNCHANGED <<businesses, inventory, taxable_income, tax_result,
                 calculator, vat_payable, tax_summary,
                 auth_users, password_reset_otps, requests, reset_tokens>>

\* TransactionSerializer.create: "convert sum from naira to kobo"
CreatedTotal(items_data) == SumSeq(items_data) * 100

\* TransactionSerializer.create behind TransactionViewSet.create.
\* validate_business_id admits only a business of the user.  Without a
\* business_id the code assigns user.business, the reverse manager of
\* Business.user, to Transaction.business: the model constructor raises
\* ValueError and nothing is written.
TransactionSerializer_create(user, business_id, transaction_type, date, is_deleted, items_data) ==
    /\ Len(transactions) < MaxTx
    /\ items_data # <<>>
    /\ business_id # NoBusiness
    /\ business_id \in DOMAIN businesses
    /\ businesses[business_id].user = user
    /\ transactions' = Append(transactions,
           [user |-> user, business |-> business_id,
            transaction_type |-> transaction_type,
            expense_type |-> NULL, date |-> date,
            total_amount |-> CreatedTotal(items_data),
            is_deleted |-> is_deleted,
            items |-> items_data])
    /\ cache' = ReceiversRun(cache, user, 1 + Len(items_data))
    /\ UNCHANGED <<businesses, inventory, taxable_income, tax_result,
                 calculator, vat_payable, tax_summary,
                 auth_users, password_reset_otps, requests, reset_tokens>>

\* TransactionSerializer.update behind TransactionViewSet.update /
\* partial_update: get_object() finds only the user's non-deleted rows;
\* items, when given, replace the old ones; instance.save() recomputes the
\* total from the items in the table
TransactionSerializer_update(user, pk, business_id, transaction_type, date, is_deleted, items_data) ==
    /\ pk \in get_queryset(transactions, user)
    /\ items_data # << <<>> >>
    /\ business_id # <<>> =>
           /\ business_id[1] \in DOMAIN businesses
           /\ businesses[business_id[1]].user = user
    /\ LET instance == transactions[pk]
           updated == [instance EXCEPT
               !.business = Given(business_id, instance.business),
               !.transaction_type = Given(transaction_type, instance.transaction_type),
               !.date = Given(date, instance.date),
               !.is_deleted = Given(is_deleted, instance.is_deleted),
               !.items = Given(items_data, instance.items),
               !.total_amount = IF items_data = <<>> THEN instance.total_amount
                                ELSE SumSeq(items_data[1])]
       IN transactions' = [transactions EXCEPT ![pk] = SavedRow(updated)]
    /\ cache' = ReceiversRun(cache, user,
                    IF items_data = <<>> THEN 1
                    ELSE Len(transactions[pk].items) + Len(items_data[1]) + 1)
    /\ UNCHANGED <<businesses, inventory, taxable_income, tax_result,
                 calculator, vat_payable, tax_summary,
                 auth_users, password_reset_otps, requests, reset_tokens>>

\* faulty variant: the delete cascades to the line items
perform_destroy_DropItems(user, pk) ==
    /\ pk \in get_queryset(transactions, user)
    /\ transactions' = [transactions EXCEPT
           ![pk] = [transactions[pk] EXCEPT !.is_deleted = TRUE, !.items = <<>>]]
    /\ cache' = transaction_changed(cache, user)
    /\ UNCHANGED <<businesses, inventory, taxable_income, tax_result,
                 calculator, vat_payable, tax_summary,
                 auth_users, password_reset_otps, requests, reset_tokens>>

\* TransactionViewSet.perform_destroy: instance.is_deleted = True; instance.save()
perform_destroy(user, pk) ==
    /\ pk \in get_queryset(transactions, user)
    /\ transactions' = [transactions EXCEPT
           ![pk] = SavedRow([transactions[pk] EXCEPT !.is_deleted = TRUE])]
    /\ cache' = transaction_changed(cache, user)
    /\ UNCHANGED <<businesses, inventory, taxable_income, tax_result,
                 calculator, vat_payable, tax_summary,
                 auth_users, password_reset_otps, requests, reset_tokens>>

\* TransactionViewSet.restore: the response and the table it leaves.
\* get_object() looks the row up in get_queryset(), which holds only the
\* user's rows that are not deleted
TransactionViewSet_restore(txs, user, pk) ==
    IF pk \notin get_queryset(txs, user)
    THEN [status |-> 404, transactions |-> txs]
    ELSE IF ~txs[pk].is_deleted
    THEN [status |-> 400, error |-> "Transaction is not deleted",
          transactions |-> txs]
    ELSE [status |-> 200,
          transactions |-> [txs EXCEPT
              ![pk] = SavedRow([txs[pk] EXCEPT !.is_deleted = FALSE])]]

\* InventoryPeriod.objects.create(...): unique_together (business, period_end)
InventoryPeriod_objects_create(business, period_end, closing_value) ==
    /\ Cardinality(inventory) < MaxSnapshots
    /\ business \in DOMAIN businesses
    /\ ~\E p \in inventory : p.business = business /\ p.period_end = period_end
    /\ inventory' = inventory \cup
           {[business |-> business, period_end |-> period_end,
             closing_value |-> closing_value]}
    /\ UNCHANGED <<businesses, transactions, taxable_income, tax_result,
                 calculator, vat_payable, tax_summary,
                 cache, auth_users, password_reset_otps, requests, reset_tokens, reset_tokens>>

(***************************************************************************)
(* Password reset (account/models.py, utils.py, serializers.py, apis.py).  *)
(* A PasswordResetOTP row is keyed by its user (OneToOneField).  The pin   *)
(* of random.randint is any of Pins, the hex of uuid4() is the serial      *)
(* number of the token, never given twice.  reset_jti None is <<>>.  The   *)
(* field expired of a row stands for timezone.now() >= expires_at.  A      *)
(* request is served by a worker in steps: every step is one statement     *)
(* that reads or writes the tables, or one transaction.atomic() block      *)
(* under select_for_update.                                                *)
(***************************************************************************)
MAX_ATTEMPTS == 5

Pins == {"111111", "222222"}

Passwords == {"old-password", "new-password"}

\* not a row of a table
NoRecord == [otp |-> "", attempts |-> 0, reset_jti |-> <<>>, expired |-> TRUE,
             used |-> FALSE, jti_used |-> FALSE]

\* the books and the cache, which no account request touches
ledger_vars == <<businesses, transactions, inventory, taxable_income,
                 tax_result, calculator, vat_payable, tax_summary, cache>>

\* PasswordResetOTP.otp_valid
otp_valid(record) ==
    /\ ~record.used
    /\ ~(record.attempts > MAX_ATTEMPTS)
    /\ ~record.expired

\* create_or_replace_otp: update_or_create(user=user, defaults={...}) sets
\* the four defaults on the row of the user, or creates the row with them
create_or_replace_otp(otps, user, otp) ==
    LET old == IF user \in DOMAIN otps THEN otps[user]
               ELSE [NoRecord EXCEPT !.expired = FALSE]
    IN (user :> [old EXCEPT !.otp = otp, !.attempts = 0, !.used = FALSE,
                            !.expired = FALSE]) @@ otps

\* password_reset_request: a pin for the user of the email, if there is one
password_reset_request(email, otp) ==
    /\ password_reset_otps' =
           IF email \in DOMAIN auth_users
           THEN create_or_replace_otp(password_reset_otps, email, otp)
           ELSE password_reset_otps
    /\ UNCHANGED <<ledger_vars, auth_users, requests, reset_tokens>>

\* ten minutes pass: the pin of the user is past expires_at
expires_at_passes(user) ==
    /\ user \in DOMAIN password_reset_otps
    /\ ~password_reset_otps[user].expired
    /\ password_reset_otps' = [password_reset_otps EXCEPT ![user].expired = TRUE]
    /\ UNCHANGED <<ledger_vars, auth_users, requests, reset_tokens>>

\* a worker free to take a request
Free(w) == requests[w].pc \in {"idle", "returned"}

\* a request answered with 400
Rejected(op, detail) ==
    [op |-> op, pc |-> "returned", status |-> 400, detail |-> detail]

\* PasswordOTPVerifySerializer.validate up to its write: the user and the
\* row are read and the pin is compared.  A wrong pin leaves the request
\* with the row it read, about to save attempts + 1
PasswordOTPVerifySerializer_validate(w, email, otp) ==
    /\ Free(w)
    /\ Cardinality(reset_tokens)
           + Cardinality({v \in Workers : requests[v].op = "password_otp_verify"
                                           /\ requests[v].pc = "save"})
         < MaxTokens
    /\ requests' = [requests EXCEPT ![w] =
           IF email \notin DOMAIN auth_users
           THEN Rejected("password_otp_verify", "Invalid reset pin.")
           ELSE IF email \notin DOMAIN password_reset_otps
           THEN Rejected("password_otp_verify", "Invalid reset pin.")
           ELSE IF ~otp_valid(password_reset_otps[email])
           THEN Rejected("password_otp_verify", "OTP expired or already used.")
           ELSE IF otp # password_reset_otps[email].otp
           THEN [op |-> "password_otp_verify", pc |-> "attempts",
                 record_id |-> email,
                 attempts |-> password_reset_otps[email].attempts + 1]
           ELSE [op |-> "password_otp_verify", pc |-> "save",
                 record_id |-> email]]
    /\ UNCHANGED <<ledger_vars, auth_users, password_reset_otps, reset_tokens>>

\* record.attempts += 1; record.save(update_fields=["attempts"]); raise
PasswordOTPVerifySerializer_validate_attempts(w) ==
    /\ requests[w].op = "password_otp_verify"
    /\ requests[w].pc = "attempts"
    /\ password_reset_otps' = [password_reset_otps EXCEPT
           ![requests[w].record_id].attempts = requests[w].attempts]
    /\ requests' = [requests EXCEPT ![w] =
           Rejected("password_otp_verify", "Invalid reset pin.")]
    /\ UNCHANGED <<ledger_vars, auth_users, reset_tokens>>

\* uuid.uuid4().hex: a value no token carries yet
NewJti == Cardinality(reset_tokens) + 1

\* faulty variant: the row is burned again without looking at used
PasswordOTPVerifySerializer_save_Unchecked(w) ==
    /\ requests[w].op = "password_otp_verify"
    /\ requests[w].pc = "save"
    /\ LET pk == requests[w].record_id
       IN /\ password_reset_otps' = [password_reset_otps EXCEPT
                  ![pk].used = TRUE, ![pk].reset_jti = <<NewJti>>]
          /\ reset_tokens' = reset_tokens \cup
                 {[email |-> pk, purpose |-> "password_reset", jti |-> NewJti]}
          /\ requests' = [requests EXCEPT ![w] =
                 [op |-> "password_otp_verify", pc |-> "returned",
                  status |-> 200, record_id |-> pk, jti |-> NewJti]]
    /\ UNCHANGED <<ledger_vars, auth_users>>

\* PasswordOTPVerifySerializer.save and the token password_otp_verify
\* builds from it: the row is read again under select_for_update; a used
\* row raises ValidationError, else the row is burned and a token minted
PasswordOTPVerifySerializer_save(w) ==
    /\ requests[w].op = "password_otp_verify"
    /\ requests[w].pc = "save"
    /\ LET pk == requests[w].record_id
       IN IF password_reset_otps[pk].used
          THEN /\ requests' = [requests EXCEPT ![w] =
                      Rejected("password_otp_verify", "OTP already used.")]
               /\ UNCHANGED <<password_reset_otps, reset_tokens>>
          ELSE /\ password_reset_otps' = [password_reset_otps EXCEPT
                      ![pk].used = TRUE, ![pk].reset_jti = <<NewJti>>]
               /\ reset_tokens' = reset_tokens \cup
                      {[email |-> pk, purpose |-> "password_reset",
                        jti |-> NewJti]}
               /\ requests' = [requests EXCEPT ![w] =
                      [op |-> "password_otp_verify", pc |-> "returned",
                       status |-> 200, record_id |-> pk, jti |-> NewJti]]
    /\ UNCHANGED <<ledger_vars, auth_users>>

\* PasswordResetSerializer.validate: jwt is a token the service signed,
\* past its exp or not; the row is looked up by the jti of the token
PasswordResetSerializer_validate(w, token, token_expired, new_password, new_password_confirm) ==
    /\ Free(w)
    /\ token \in reset_tokens
    /\ LET found == {u \in DOMAIN password_reset_otps :
                        password_reset_otps[u].reset_jti = <<token.jti>>}
       IN requests' = [requests EXCEPT ![w] =
              IF token_expired
              THEN Rejected("password_reset_confirm", "Reset token expired.")
              ELSE IF token.purpose # "password_reset"
              THEN Rejected("password_reset_confirm", "Invalid reset token.")
              ELSE IF new_password # new_password_confirm
              THEN Rejected("password_reset_confirm", "New passwords do not match.")
              ELSE IF found = {}
              THEN Rejected("password_reset_confirm",
                            "Invalid or expired reset token.")
              ELSE [op |-> "password_reset_confirm", pc |-> "save",
                    otp_record |-> CHOOSE u \in found : TRUE,
                    jti |-> token.jti, new_password |-> new_password]]
    /\ UNCHANGED <<ledger_vars, auth_users, password_reset_otps, reset_tokens>>

\* PasswordResetSerializer.save: the row is locked, the token burned and
\* the password set; reset_jti of the locked row is not looked at
PasswordResetSerializer_save(w) ==
    /\ requests[w].op = "password_reset_confirm"
    /\ requests[w].pc = "save"
    /\ LET pk == requests[w].otp_record
       IN /\ password_reset_otps' = [password_reset_otps EXCEPT
                  ![pk].reset_jti = <<>>, ![pk].jti_used = TRUE]
          /\ auth_users' = [auth_users EXCEPT
                  ![pk].password = requests[w].new_password]
          /\ requests' = [requests EXCEPT ![w] =
                 [op |-> "password_reset_confirm", pc |-> "returned",
                  status |-> 200, jti |-> requests[w].jti,
                  new_password |-> requests[w].new_password]]
    /\ UNCHANGED <<ledger_vars, reset_tokens>>

(***************************************************************************)
(* The tax calculator as a state machine: a call with an income drawn from *)
(* TaxIncomes, then its return.  The incomes sit on and around the         *)
(* exemption threshold and every band limit, with the kobo parts on which  *)
(* the rounding of each rate turns.                                        *)
(***************************************************************************)
TaxNaira == {-1, 0, 1, 799999, 800000, 800001, 2999999, 3000000, 3000001,
             4000000, 11999999, 12000000, 12000001, 24999999, 25000000,
             25000001, 49999999, 50000000, 50000001, 60000000}

TaxKobo == {0, 1, 2, 3, 10, 25, 50, 99}

TaxIncomes == {<<n, k>> : n \in TaxNaira, k \in TaxKobo}

\* nothing is cached
NoCache == cache = DummyCache

\* no account and no request
NoAccounts ==
    /\ auth_users = <<>>
    /\ password_reset_otps = <<>>
    /\ requests = <<>>
    /\ reset_tokens = {}

EmptyLedger ==
    /\ businesses = <<>>
    /\ transactions = <<>>
    /\ inventory = {}

\* no calculate_vat or calculate_tax_summary call is in progress
NoSummaryCall ==
    /\ calculator = [vat_enabled |-> FALSE, total_revenue_kobo |-> 0,
                     total_expenses_kobo |-> 0]
    /\ vat_payable = <<>>
    /\ tax_summary = <<>>

InitTax ==
    /\ EmptyLedger
    /\ NoCache
    /\ NoAccounts
    /\ NoSummaryCall
    /\ taxable_income \in TaxIncomes
    /\ tax_result = <<>>

\* calculator.calculate_personal_income_tax(taxable_income) returns
PersonalIncomeTaxCall ==
    /\ tax_result = <<>>
    /\ tax_result' = <<calculate_personal_income_tax(taxable_income)>>
    /\ UNCHANGED <<businesses, transactions, inventory, taxable_income,
                   calculator, vat_payable, tax_summary,
                   cache, auth_users, password_reset_otps, requests, reset_tokens, reset_tokens>>

NextTax == PersonalIncomeTaxCall

SpecTax == InitTax /\ [][NextTax]_vars

(***************************************************************************)
(* The tax summary as a state machine: a calculator built with or without  *)
(* VAT, called with a revenue and expenses in kobo.  The revenues sit on   *)
(* the ties of the VAT rounding and, with the expenses, give net profits   *)
(* below, on and above the exemption threshold.                            *)
(***************************************************************************)
Revenues == {-100, 0, 1, 7, 20, 60, 100, 1000, 80000000, 80000100,
             128000000, 200000000}

Expenses == {0, 100, 1000, 72000000, 210000000}

InitSummary ==
    /\ EmptyLedger
    /\ NoCache
    /\ NoAccounts
    /\ taxable_income = <<0, 0>>
    /\ tax_result = <<>>
    /\ calculator \in [vat_enabled : BOOLEAN, total_revenue_kobo : Revenues,
                        total_expenses_kobo : Expenses]
    /\ vat_payable = <<>>
    /\ tax_summary = <<>>

\* calculator.calculate_vat(revenue_kobo) returns
VatCall ==
    /\ vat_payable = <<>>
    /\ vat_payable' = <<calculate_vat(calculator.vat_enabled,
                                      calculator.total_revenue_kobo)>>
    /\ UNCHANGED <<businesses, transactions, inventory, taxable_income,
                   tax_result, calculator, tax_summary,
                   cache, auth_users, password_reset_otps, requests, reset_tokens, reset_tokens>>

\* calculator.calculate_tax_summary(total_revenue_kobo, total_expenses_kobo,
\* business_id) returns
TaxSummaryCall ==
    /\ tax_summary = <<>>
    /\ tax_summary' = <<calculate_tax_summary(calculator.vat_enabled,
                            calculator.total_revenue_kobo,
                            calculator.total_expenses_kobo)>>
    /\ UNCHANGED <<businesses, transactions, inventory, taxable_income,
                   tax_result, calculator, vat_payable,
                   cache, auth_users, password_reset_otps, requests, reset_tokens, reset_tokens>>

NextSummary == VatCall \/ TaxSummaryCall

SpecSummary == InitSummary /\ [][NextSummary]_vars

(***************************************************************************)
(* The books as a state machine.  Init is the empty database; no tax call  *)
(* is in progress.                                                         *)
(***************************************************************************)
\* explicit totals given to Transaction.objects.create
TotalAmounts == {1000, 3000}
\* closing values of inventory snapshots
ClosingValues == {2000}
\* the (transaction_type, expense_type) pairs profit_and_loss tells apart
LedgerKinds == {<<"income", NULL>>, <<"expense", NULL>>,
                <<"expense", "operating">>, <<"expense", "inventory">>}

\* the businesses a user may name: validate_business_id
OwnBusinesses(user) == {b \in DOMAIN businesses : businesses[b].user = user}

\* the business an entry is booked under: one of the user's, none before
\* the user has any
EntryBusinesses(user) ==
    IF OwnBusinesses(user) = {} THEN {NoBusiness} ELSE OwnBusinesses(user)

Init ==
    /\ EmptyLedger
    /\ NoCache
    /\ NoAccounts
    /\ NoSummaryCall
    /\ taxable_income = <<0, 0>>
    /\ tax_result = <<>>

(***************************************************************************)
(* Inventory accounting: businesses, transactions entered with explicit    *)
(* totals, and inventory snapshots.                                        *)
(***************************************************************************)
NextPL ==
    \/ \E u \in Users : Business_create(u)
    \/ \E u \in Users, b \in BusinessIds \cup {NoBusiness},
          kind \in LedgerKinds, d \in Dates, a \in TotalAmounts :
            /\ b \in EntryBusinesses(u)
            /\ Transaction_objects_create(u, b, kind[1], kind[2], d, a)
    \/ \E b \in BusinessIds, d \in Dates, v \in ClosingValues :
            InventoryPeriod_objects_create(b, d, v)

SpecPL == Init /\ [][NextPL]_vars

(***************************************************************************)
(* The ledger of two owners: entries made through the API and through the  *)
(* ORM, edited, and soft-deleted.                                          *)
(***************************************************************************)
\* amounts of line items: 15.00 and 25.50
ItemAmounts == {1500, 2550}

\* the kinds of entry made with an explicit total
EntryKinds == {<<"income", NULL>>, <<"expense", "operating">>}

NextLedger ==
    \/ \E u \in Users : OwnBusinesses(u) = {} /\ Business_create(u)
    \/ \E u \in Users, b \in BusinessIds \cup {NoBusiness},
          kind \in EntryKinds, d \in Dates :
            /\ b \in EntryBusinesses(u)
            /\ Transaction_objects_create(u, b, kind[1], kind[2], d, 1000)
    \/ \E u \in Users, b \in BusinessIds, t \in TransactionTypes,
          d \in Dates, del \in BOOLEAN :
            TransactionSerializer_create(u, b, t, d, del, <<1500>>)
    \/ \E u \in Users, pk \in 1..MaxTx, d \in Dates :
            TransactionSerializer_update(u, pk, <<>>, <<>>, <<d>>, <<>>, <<>>)
    \/ \E u \in Users, pk \in 1..MaxTx : perform_destroy(u, pk)
    \/ \E pk \in 1..MaxTx :
            /\ pk \in DOMAIN transactions
            /\ transactions[pk].items = <<>>
            /\ TransactionItem_objects_create(pk, 1500)
    \/ \E pk \in 1..MaxTx : Transaction_save(pk)

Spec == Init /\ [][NextLedger]_vars

(***************************************************************************)
(* Line items and totals: one owner's entries made through the API with    *)
(* one or two line items, their items replaced, items added through the    *)
(* ORM, saves and soft deletions.                                          *)
(***************************************************************************)
\* items of a request: one to MaxItems amounts
ItemLists ==
    UNION {[1..n -> ItemAmounts] : n \in 1..MaxItems}

NextItems ==
    \/ OwnBusinesses("A") = {} /\ Business_create("A")
    \/ \E b \in BusinessIds, items_data \in ItemLists :
            TransactionSerializer_create("A", b, "income", 1, FALSE, items_data)
    \/ \E pk \in 1..MaxTx, items_data \in Optional(ItemLists) :
            TransactionSerializer_update("A", pk, <<>>, <<>>, <<>>, <<>>, items_data)
    \/ \E pk \in 1..MaxTx, a \in ItemAmounts :
            TransactionItem_objects_create(pk, a)
    \/ \E pk \in 1..MaxTx : Transaction_save(pk)
    \/ \E pk \in 1..MaxTx : perform_destroy("A", pk)

SpecItems == Init /\ [][NextItems]_vars

(***************************************************************************)
(* Stock taking: businesses, inventory purchases, and snapshots dated on,  *)
(* before and after the days a statement can start or end on.              *)
(***************************************************************************)
\* period_end of a snapshot: the day before the first date up to the last
SnapshotDates == 0..MaxDate

\* closing values that tell two snapshots apart
StockValues == {2000, 5000}

NextStock ==
    \/ \E u \in Users : Business_create(u)
    \/ \E u \in Users, b \in BusinessIds, d \in Dates :
            /\ b \in OwnBusinesses(u)
            /\ Transaction_objects_create(u, b, "expense", "inventory", d, 1000)
    \/ \E b \in BusinessIds, d \in SnapshotDates, v \in StockValues :
            InventoryPeriod_objects_create(b, d, v)

SpecStock == Init /\ [][NextStock]_vars

(***************************************************************************)
(* Kinds of entry: one owner's income and expenses with every value of     *)
(* expense_type the column stores, given a line item or soft-deleted.      *)
(***************************************************************************)
NextKinds ==
    \/ OwnBusinesses("A") = {} /\ Business_create("A")
    \/ \E b \in BusinessIds \cup {NoBusiness}, t \in TransactionTypes,
          x \in ExpenseTypes, d \in Dates, a \in TotalAmounts :
            /\ b \in EntryBusinesses("A")
            /\ Transaction_objects_create("A", b, t, x, d, a)
    \/ \E pk \in 1..MaxTx :
            /\ pk \in DOMAIN transactions
            /\ transactions[pk].items = <<>>
            /\ TransactionItem_objects_create(pk, 1500)
    \/ \E pk \in 1..MaxTx : perform_destroy("A", pk)

SpecKinds == Init /\ [][NextKinds]_vars

(***************************************************************************)
(* Cached reads: two owners enter, itemise and soft-delete transactions    *)
(* and read the listing and the figures through a cache that stores.       *)
(* Requests are served one at a time.                                      *)
(***************************************************************************)
ListParams == [type : Optional({"income"})]

InitCache ==
    /\ EmptyLedger
    /\ cache = EmptyCache
    /\ NoAccounts
    /\ NoSummaryCall
    /\ taxable_income = <<0, 0>>
    /\ tax_result = <<>>

NextCache ==
    \/ \E u \in Users, t \in TransactionTypes :
            Transaction_objects_create(u, NoBusiness, t, NULL, 1, 1000)
    \/ \E pk \in 1..MaxTx :
            /\ pk \in DOMAIN transactions
            /\ transactions[pk].items = <<>>
            /\ TransactionItem_objects_create(pk, 1500)
    \/ \E u \in Users, pk \in 1..MaxTx : perform_destroy(u, pk)
    \/ \E u \in Users, params \in ListParams : TransactionView_get(u, params)
    \/ \E u \in Users : SummaryView_get(u)

SpecCache == InitCache /\ [][NextCache]_vars

(***************************************************************************)
(* The version counters: the workers run increment_user_cache_version for  *)
(* the two owners side by side over a cache that stores.                   *)
(***************************************************************************)
InitVersion ==
    /\ EmptyLedger
    /\ cache = EmptyCache
    /\ auth_users = <<>>
    /\ password_reset_otps = <<>>
    /\ requests = [w \in Workers |->
                      [op |-> "increment_user_cache_version", pc |-> "idle",
                       user_id |-> "A", began |-> 0]]
    /\ reset_tokens = {}
    /\ NoSummaryCall
    /\ taxable_income = <<0, 0>>
    /\ tax_result = <<>>

NextVersion ==
    \/ \E w \in Workers, u \in Users : increment_user_cache_version_call(w, u)
    \/ \E w \in Workers : increment_user_cache_version_try(w)
    \/ \E w \in Workers : increment_user_cache_version_except(w)

SpecVersion == InitVersion /\ [][NextVersion]_vars

(***************************************************************************)
(* Password reset: one registered user, A, asks for pins, and the workers  *)
(* serve verify requests that carry the pin of the row and confirm         *)
(* requests that carry a token handed out, side by side.  B is an email    *)
(* nobody registered.                                                      *)
(***************************************************************************)
InitReset ==
    /\ EmptyLedger
    /\ NoCache
    /\ NoSummaryCall
    /\ taxable_income = <<0, 0>>
    /\ tax_result = <<>>
    /\ auth_users = [u \in {"A"} |-> [password |-> "old-password"]]
    /\ password_reset_otps = <<>>
    /\ requests = [w \in Workers |-> [op |-> "none", pc |-> "idle"]]
    /\ reset_tokens = {}

NextReset ==
    \/ \E email \in Users, otp \in Pins : password_reset_request(email, otp)
    \/ \E u \in Users : expires_at_passes(u)
    \/ \E w \in Workers, email \in Users, otp \in Pins :
            /\ email \in DOMAIN password_reset_otps =>
                   otp = password_reset_otps[email].otp
            /\ PasswordOTPVerifySerializer_validate(w, email, otp)
    \/ \E w \in Workers : PasswordOTPVerifySerializer_save(w)
    \/ \E w \in Workers, token \in reset_tokens, token_expired \in BOOLEAN,
          new_password \in Passwords, new_password_confirm \in Passwords :
            PasswordResetSerializer_validate(w, token, token_expired,
                                             new_password, new_password_confirm)
    \/ \E w \in Workers : PasswordResetSerializer_save(w)

SpecReset == InitReset /\ [][NextReset]_vars

(***************************************************************************)
(* Pin attempts: the user asks for pins and the workers serve verify       *)
(* requests with right and wrong pins.                                     *)
(***************************************************************************)
NextAttempts ==
    \/ \E otp \in Pins : password_reset_request("A", otp)
    \/ expires_at_passes("A")
    \/ \E w \in Workers, otp \in Pins :
            PasswordOTPVerifySerializer_validate(w, "A", otp)
    \/ \E w \in Workers : PasswordOTPVerifySerializer_validate_attempts(w)
    \/ \E w \in Workers : PasswordOTPVerifySerializer_save(w)

SpecAttempts == InitReset /\ [][NextAttempts]_vars

(***************************************************************************)
(* Requests the summary services are called with.                          *)
(***************************************************************************)
\* business_id: absent, or any id (of an existing business or not)
RequestBusinessIds == BusinessIds \cup {NoBusiness}

\* the profit-and-loss statement of the current books
PL(user, start_date, end_date, business_id) ==
    profit_and_loss(transactions, businesses, inventory,
                    user, start_date, end_date, business_id)

Mode(user, business_id) == ProfitAndLossMode(businesses, user, business_id)

\* reference total: total_amount of the user's non-deleted rows of one
\* type dated in [start_date, end_date], summed row by row
RECURSIVE RefTotal(_, _, _, _, _, _)
RefTotal(txs, n, user, start_date, end_date, transaction_type) ==
    IF n = 0 THEN 0
    ELSE RefTotal(txs, n - 1, user, start_date, end_date, transaction_type)
         + (IF /\ txs[n].user = user
               /\ txs[n].transaction_type = transaction_type
               /\ start_date <= txs[n].date
               /\ txs[n].date <= end_date
               /\ ~txs[n].is_deleted
            THEN txs[n].total_amount ELSE 0)

(***************************************************************************)
(* C1.  In business mode profit_and_loss returns                           *)
(* cogs = max(0, opening_stock + inventory_purchases - closing_stock),     *)
(* and the cogs it returns is never negative.                              *)
(***************************************************************************)
C1_CogsClamped ==
    \A u \in Users, s \in Dates, e \in Dates, b \in RequestBusinessIds :
        LET r == PL(u, s, e, b)
            raw == r.opening_stock + r.inventory_purchases - r.closing_stock
        IN /\ r.cogs >= 0
           /\ Mode(u, b) = "business" =>
                  r.cogs = (IF raw > 0 THEN raw ELSE 0)

\* a business-mode statement whose stock figures would give a negative cogs
C1_Witness ==
    \E u \in Users, s \in Dates, e \in Dates, b \in RequestBusinessIds :
        LET r == PL(u, s, e, b)
        IN /\ Mode(u, b) = "business"
           /\ r.inventory_purchases > 0
           /\ r.opening_stock + r.inventory_purchases - r.closing_stock < 0
           /\ r.cogs = 0

(***************************************************************************)
(* C3.  In individual mode, with R the total sales and E the total         *)
(* expenses of the owner's non-deleted transactions in range,              *)
(* profit_and_loss returns cogs = 0, gross_profit = R and                  *)
(* net_profit = R - E, every expense counted whatever its subtype, and     *)
(* the result is not clamped when R < E.                                   *)
(***************************************************************************)
C3_IndividualExact ==
    \A u \in Users, s \in Dates, e \in Dates, b \in RequestBusinessIds :
        Mode(u, b) = "individual" =>
            LET r == PL(u, s, e, b)
                R == RefTotal(transactions, Len(transactions), u, s, e, "income")
                E == RefTotal(transactions, Len(transactions), u, s, e, "expense")
            IN /\ r.cogs = 0
               /\ r.total_sales = R
               /\ r.gross_profit = R
               /\ r.operating_expenses = E
               /\ r.net_profit = R - E

\* an individual-mode statement with an inventory-typed expense and a loss
C3_Witness ==
    \E u \in Users, s \in Dates, e \in Dates :
        LET r == PL(u, s, e, NoBusiness)
        IN /\ Mode(u, NoBusiness) = "individual"
           /\ \E i \in DOMAIN transactions :
                  /\ transactions[i].user = u
                  /\ transactions[i].expense_type = "inventory"
                  /\ transactions[i].transaction_type = "expense"
                  /\ s <= transactions[i].date /\ transactions[i].date <= e
           /\ r.total_sales > 0
           /\ r.net_profit < 0

(***************************************************************************)
(* C4.  In business mode profit_and_loss returns                           *)
(* gross_profit = total_sales - cogs and                                   *)
(* net_profit = gross_profit - operating_expenses, neither clamped at      *)
(* zero; opening 200,000, purchases 500,000, closing 100,000, sales        *)
(* 1,000,000 and operating 150,000 give cogs 600,000, gross profit         *)
(* 400,000 and net profit 250,000.                                         *)
(***************************************************************************)
C4_BusinessProfit ==
    /\ \A u \in Users, s \in Dates, e \in Dates, b \in RequestBusinessIds :
           Mode(u, b) = "business" =>
               LET r == PL(u, s, e, b)
               IN /\ r.gross_profit = r.total_sales - r.cogs
                  /\ r.net_profit = r.gross_profit - r.operating_expenses
    /\ LET cogs == Cogs(20000000 + 50000000, 10000000)
           gross == GrossProfit(100000000, cogs)
       IN /\ cogs = 60000000
          /\ gross = 40000000
          /\ NetProfit(gross, 15000000) = 25000000

\* a business-mode statement with a negative gross profit and net profit
C4_Witness ==
    \E u \in Users, s \in Dates, e \in Dates, b \in BusinessIds :
        LET r == PL(u, s, e, b)
        IN /\ Mode(u, b) = "business"
           /\ r.cogs > 0
           /\ r.operating_expenses > 0
           /\ r.gross_profit < 0
           /\ r.net_profit < r.gross_profit

(***************************************************************************)
(* C5.  profit_and_loss runs in business mode whenever a business id is    *)
(* supplied or, none being supplied, the owner has at least one business;  *)
(* in individual mode only when no business is resolvable for the owner.   *)
(***************************************************************************)
C5_ModeSelection ==
    \A u \in Users, b \in RequestBusinessIds :
        Mode(u, b) = (IF b # NoBusiness \/ OwnBusinesses(u) # {}
                      THEN "business" ELSE "individual")

(***************************************************************************)
(* C6.  For every valid year or month request the tax summary operation    *)
(* returns a complete tax summary whose total_revenue is the total sales   *)
(* of the P&L of the period and whose total_expenses are the P&L           *)
(* expenses; the call never fails, the empty ledger included.              *)
(***************************************************************************)
C6_TaxSummaryFromPL ==
    \A u \in Users, period \in TaxPeriods, b \in RequestBusinessIds,
       vat \in BOOLEAN :
        LET resp == TaxView_get(transactions, businesses, inventory,
                                u, period, b, vat)
            pl == PL(u, PeriodStart(period), PeriodEnd(period), b)
        IN /\ resp.status = 200
           /\ resp.data.total_revenue = pl.total_sales
           /\ resp.data.total_expenses =
                  pl.inventory_purchases + pl.operating_expenses

(***************************************************************************)
(* C8.  The opening_stock, closing_stock and cogs that profit_and_loss     *)
(* returns to an owner do not depend on inventory snapshots of businesses  *)
(* the owner does not own, whatever business id is supplied.               *)
(***************************************************************************)
OwnInventory(user) ==
    {p \in inventory : p.business \in OwnBusinesses(user)}

C8_InventoryOwnerScoped ==
    \A u \in Users, s \in Dates, e \in Dates, b \in RequestBusinessIds :
        LET r == PL(u, s, e, b)
            own == profit_and_loss(transactions, businesses, OwnInventory(u),
                                   u, s, e, b)
        IN /\ r.opening_stock = own.opening_stock
           /\ r.closing_stock = own.closing_stock
           /\ r.cogs = own.cogs

(***************************************************************************)
(* C2.  calculate_personal_income_tax(x) equals the reference bracket      *)
(* computation: 0 if x <= 0 or x is at or below the 800,000-naira          *)
(* exemption; otherwise, with chargeable income c = x/100 - 800,000, the   *)
(* sum over the brackets (2.2M at 15%, 11.2M at 18%, 24.2M at 21%, 49.2M   *)
(* at 23%, unbounded at 25%) of (portion of c inside the bracket) * rate,  *)
(* the portions adding up to c, rounded half-up to the kobo; an income of  *)
(* 4,000,000 naira gives a tax of 510,000 naira.                           *)
(***************************************************************************)
\* the brackets as <<lower, upper, percent>> in naira of chargeable income
RefBrackets ==
    << <<0, 2200000, 15>>, <<2200000, 11200000, 18>>,
       <<11200000, 24200000, 21>>, <<24200000, 49200000, 23>> >>

RefTopBracket == <<49200000, 25>>

\* the portion <<naira, kobo>> of c between lower and upper
RefPortion(c, lower, upper) ==
    IF c[1] < lower \/ c = <<lower, 0>> THEN <<0, 0>>
    ELSE IF c[1] >= upper THEN <<upper - lower, 0>>
    ELSE <<c[1] - lower, c[2]>>

RefTopPortion(c) ==
    IF c[1] < RefTopBracket[1] THEN <<0, 0>>
    ELSE <<c[1] - RefTopBracket[1], c[2]>>

RefPortions(c) ==
    [j \in 1..5 |->
        IF j <= 4 THEN RefPortion(c, RefBrackets[j][1], RefBrackets[j][2])
        ELSE RefTopPortion(c)]

RefRate(j) == IF j <= 4 THEN RefBrackets[j][3] ELSE RefTopBracket[2]

\* the reference tax in kobo of the income n naira and k kobo
RefPersonalIncomeTax(income) ==
    IF income[1] < 800000 \/ income = <<800000, 0>> THEN 0
    ELSE LET c == <<income[1] - 800000, income[2]>>
             p == RefPortions(c)
             \* whole naira at r percent: naira * r kobo
             kobo == p[1][1] * RefRate(1) + p[2][1] * RefRate(2)
                     + p[3][1] * RefRate(3) + p[4][1] * RefRate(4)
                     + p[5][1] * RefRate(5)
             \* kobo at r percent: kobo * r hundredths of a kobo
             hundredths == p[1][2] * RefRate(1) + p[2][2] * RefRate(2)
                           + p[3][2] * RefRate(3) + p[4][2] * RefRate(4)
                           + p[5][2] * RefRate(5)
         IN kobo + (IF hundredths % 100 >= 50 THEN hundredths \div 100 + 1
                    ELSE hundredths \div 100)

\* the portions of the brackets add up to the chargeable income
RefCoversAll(income) ==
    income[1] >= 800000 =>
        LET c == <<income[1] - 800000, income[2]>>
            p == RefPortions(c)
        IN /\ p[1][1] + p[2][1] + p[3][1] + p[4][1] + p[5][1] = c[1]
           /\ p[1][2] + p[2][2] + p[3][2] + p[4][2] + p[5][2] = c[2]

C2_TaxMatchesBrackets ==
    tax_result # <<>> =>
        /\ tax_result[1] = RefPersonalIncomeTax(taxable_income)
        /\ RefCoversAll(taxable_income)
        /\ taxable_income = <<4000000, 0>> => tax_result[1] = 51000000

\* the call returned for an income in the fourth bracket whose kobo part
\* makes the tax a half kobo to round
C2_Witness ==
    /\ tax_result # <<>>
    /\ taxable_income = <<49999999, 50>>
    /\ tax_result[1] = RefPersonalIncomeTax(<<49999999, 0>>) + 12

(***************************************************************************)
(* C7.  Owner isolation.  What the listing, the retrieval, daily_summary,  *)
(* date_range_summary and profit_and_loss return for an owner is a         *)
(* function of that owner's transactions alone: in every state it is the   *)
(* same on the ledger with every other owner's rows taken out, so that no  *)
(* creation, change or deletion of another owner's row can change it; the  *)
(* listing holds only the owner's rows and retrieving another owner's row  *)
(* is a 404.                                                               *)
(***************************************************************************)
OwnRows(txs, user) == SelectSeq(txs, LAMBDA tx : tx.user = user)

\* the rows a listing shows, as a bag of rows turned into a sequence-free
\* value: the set of (row, number of copies listed)
ListedRows(txs, user) ==
    LET listed == TransactionViewSet_list(txs, user)
    IN {<<txs[i], Cardinality({j \in listed : txs[j] = txs[i]})>> : i \in listed}

C7_OwnerIsolation ==
    \A u \in Users :
        LET own == OwnRows(transactions, u)
        IN /\ \A i \in TransactionViewSet_list(transactions, u) :
                  transactions[i].user = u
           /\ ListedRows(transactions, u) = ListedRows(own, u)
           /\ \A pk \in DOMAIN transactions :
                  transactions[pk].user # u =>
                      TransactionViewSet_retrieve(transactions, u, pk).status = 404
           /\ \A d \in Dates, b \in RequestBusinessIds :
                  daily_summary(transactions, u, d, b) = daily_summary(own, u, d, b)
           /\ \A s \in Dates, e \in Dates, b \in RequestBusinessIds :
                  /\ date_range_summary(transactions, u, s, e, b)
                         = date_range_summary(own, u, s, e, b)
                  /\ profit_and_loss(transactions, businesses, inventory, u, s, e, b)
                         = profit_and_loss(own, businesses, inventory, u, s, e, b)

\* both owners have income on the same day, and what A is shown is A's own
C7_Witness ==
    \E i \in DOMAIN transactions, j \in DOMAIN transactions :
        /\ transactions[i].user = "A" /\ transactions[j].user = "B"
        /\ transactions[i].transaction_type = "income"
        /\ transactions[j].transaction_type = "income"
        /\ transactions[i].date = transactions[j].date
        /\ ~transactions[i].is_deleted /\ ~transactions[j].is_deleted
        /\ transactions[i].total_amount > 0 /\ transactions[j].total_amount > 0
        /\ daily_summary(transactions, "A", transactions[i].date, NoBusiness).total_income
               = transactions[i].total_amount
        /\ TransactionViewSet_list(transactions, "A") = {i}
        /\ TransactionViewSet_retrieve(transactions, "A", j).status = 404

(***************************************************************************)
(* C9.  Soft deletion.  In every reachable ledger state daily_summary,     *)
(* date_range_summary and profit_and_loss return what they return on the   *)
(* same ledger with every soft-deleted transaction removed: a soft-deleted *)
(* transaction contributes to no aggregate.                                *)
(***************************************************************************)
NotDeleted(txs) == SelectSeq(txs, LAMBDA tx : ~tx.is_deleted)

C9_SoftDeletedExcluded ==
    LET kept == NotDeleted(transactions)
    IN \A u \in Users, b \in RequestBusinessIds :
           /\ \A d \in Dates :
                  daily_summary(transactions, u, d, b) = daily_summary(kept, u, d, b)
           /\ \A s \in Dates, e \in Dates :
                  /\ date_range_summary(transactions, u, s, e, b)
                         = date_range_summary(kept, u, s, e, b)
                  /\ profit_and_loss(transactions, businesses, inventory, u, s, e, b)
                         = profit_and_loss(kept, businesses, inventory, u, s, e, b)

\* an expense entered with an explicit total, given a line item and then
\* soft-deleted, keeps a positive total; the day's and the period's expense
\* are those of the owner's other expense alone
C9_Witness ==
    \E i \in DOMAIN transactions, j \in DOMAIN transactions :
        LET deleted == transactions[i]
            other == transactions[j]
        IN /\ deleted.is_deleted /\ ~other.is_deleted
           /\ deleted.expense_type = "operating"
           /\ deleted.total_amount > 0 /\ other.total_amount > 0
           /\ other.user = deleted.user /\ other.date = deleted.date
           /\ other.transaction_type = "expense"
           /\ daily_summary(transactions, deleted.user, deleted.date,
                            NoBusiness).total_expense = other.total_amount
           /\ date_range_summary(transactions, deleted.user, deleted.date,
                  deleted.date, NoBusiness).total_expense = other.total_amount
           /\ profit_and_loss(transactions, businesses, inventory, deleted.user,
                  deleted.date, deleted.date, NoBusiness).operating_expenses
                  = other.total_amount

(***************************************************************************)
(* C10.  Total of a transaction with line items.  After every completed    *)
(* ledger-entry operation on a transaction (API create with items, API     *)
(* update that replaces the items, save of an existing transaction) that   *)
(* leaves it with at least one line item, its total_amount equals the sum  *)
(* of its line items' amounts in the same unit: items 25.50 and 15.00 give *)
(* total 40.50.                                                            *)
(***************************************************************************)
\* the step is a completed ledger-entry operation on row pk
LedgerEntryOn(pk) ==
    \/ /\ pk = Len(transactions) + 1
       /\ \E b \in BusinessIds, items_data \in ItemLists :
              TransactionSerializer_create("A", b, "income", 1, FALSE, items_data)
    \/ \E items_data \in ItemLists :
           TransactionSerializer_update("A", pk, <<>>, <<>>, <<>>, <<>>,
                                        <<items_data>>)
    \/ Transaction_save(pk)

C10_TotalIsItemSum ==
    [][\A pk \in 1..MaxTx :
           (LedgerEntryOn(pk) /\ transactions'[pk].items # <<>>) =>
               transactions'[pk].total_amount = SumSeq(transactions'[pk].items)]_vars

(***************************************************************************)
(* C11.  Opening stock.  In business mode the opening stock of a period    *)
(* starting at start is the closing_value of the snapshot of that business *)
(* with the greatest period_end strictly before start, and zero when there *)
(* is none; a snapshot dated on start or later is never used.              *)
(***************************************************************************)
SnapshotsBefore(business_id, start_date) ==
    {p \in inventory : p.business = business_id /\ p.period_end < start_date}

C11_OpeningStock ==
    \A u \in Users, s \in Dates, e \in Dates, b \in BusinessIds :
        LET r == PL(u, s, e, b)
            before == SnapshotsBefore(b, s)
        IN Mode(u, b) = "business" =>
               IF before = {} THEN r.opening_stock = 0
               ELSE \E p \in before :
                        /\ \A q \in before : q.period_end <= p.period_end
                        /\ r.opening_stock = p.closing_value

\* two snapshots of one business before the start, with different values:
\* the later one is the opening stock
C11_Witness ==
    \E p \in inventory, q \in inventory, s \in Dates :
        /\ p.business = q.business
        /\ q.period_end < p.period_end /\ p.period_end < s
        /\ p.closing_value # q.closing_value
        /\ Mode("A", p.business) = "business"
        /\ PL("A", s, s, p.business).opening_stock = p.closing_value

(***************************************************************************)
(* C12.  Closing stock.  In business mode the closing stock of a period    *)
(* ending at end is the closing_value of the snapshot of that business     *)
(* whose period_end is exactly end, and zero when there is no snapshot for *)
(* that exact date, even if earlier or later snapshots exist.              *)
(***************************************************************************)
SnapshotsAt(business_id, end_date) ==
    {p \in inventory : p.business = business_id /\ p.period_end = end_date}

C12_ClosingStock ==
    \A u \in Users, s \in Dates, e \in Dates, b \in BusinessIds :
        LET r == PL(u, s, e, b)
            at == SnapshotsAt(b, e)
        IN Mode(u, b) = "business" =>
               /\ Cardinality(at) <= 1
               /\ IF at = {} THEN r.closing_stock = 0
                  ELSE \A p \in at : r.closing_stock = p.closing_value

\* a business with a snapshot before and a snapshot after the end of the
\* period and none on it: the closing stock is zero
C12_Witness ==
    \E p \in inventory, q \in inventory, e \in Dates :
        /\ p.business = q.business
        /\ p.period_end < e /\ e < q.period_end
        /\ p.closing_value > 0 /\ q.closing_value > 0
        /\ Mode("A", p.business) = "business"
        /\ PL("A", e, e, p.business).closing_stock = 0

(***************************************************************************)
(* C13.  For all revenue R and expenses E in minor units                   *)
(* calculate_tax_summary returns net_profit = max(0, R - E),               *)
(* taxable_income = net_profit and estimated_income_tax =                  *)
(* calculate_personal_income_tax(net_profit); a loss yields zero taxable   *)
(* income and zero income tax.                                             *)
(***************************************************************************)
\* an amount of kobo as <<naira, kobo>>
KoboPair(kobo) == <<kobo \div 100, kobo % 100>>

C13_SummaryProfitAndTax ==
    tax_summary # <<>> =>
        LET summary == tax_summary[1]
            difference == calculator.total_revenue_kobo
                          - calculator.total_expenses_kobo
        IN /\ summary.net_profit = (IF difference > 0 THEN difference ELSE 0)
           /\ summary.taxable_income = summary.net_profit
           /\ summary.estimated_income_tax
                  = calculate_personal_income_tax(KoboPair(summary.net_profit))
           /\ summary.estimated_income_tax
                  = RefPersonalIncomeTax(KoboPair(summary.net_profit))
           /\ difference <= 0 =>
                  /\ summary.taxable_income = 0
                  /\ summary.estimated_income_tax = 0

\* a summary of a loss on a positive revenue
C13_Witness ==
    /\ tax_summary # <<>>
    /\ calculator.total_revenue_kobo > 0
    /\ calculator.total_revenue_kobo < calculator.total_expenses_kobo
    /\ tax_summary[1].net_profit = 0
    /\ tax_summary[1].taxable_income = 0
    /\ tax_summary[1].estimated_income_tax = 0

(***************************************************************************)
(* C14.  For all revenue x in minor units calculate_vat(x) is x * 7.5%     *)
(* rounded half-up to the nearest minor unit when VAT is enabled and x is  *)
(* positive, 0 when VAT is disabled, and 0 for x <= 0 whether or not VAT   *)
(* is enabled.  v is x * 0.075 rounded half-up exactly when                *)
(* v - 1/2 <= 3x/40 < v + 1/2.                                             *)
(***************************************************************************)
C14_VatHalfUp ==
    vat_payable # <<>> =>
        LET x == calculator.total_revenue_kobo
            v == vat_payable[1]
        IN IF calculator.vat_enabled /\ x > 0
           THEN 40 * v - 20 <= 3 * x /\ 3 * x < 40 * v + 20
           ELSE v = 0

\* VAT on 20 kobo is 1.5 kobo, a tie: 2 kobo are returned
C14_Witness ==
    /\ vat_payable = <<2>>
    /\ calculator.vat_enabled
    /\ calculator.total_revenue_kobo = 20

(***************************************************************************)
(* C15.  calculate_tax_summary returns effective_tax_rate = 0 whenever     *)
(* net_profit = 0, and otherwise estimated_income_tax / net_profit rounded *)
(* half-up to 4 decimal places: a tie at the fifth decimal, exactly        *)
(* 0.05625, rounds up to 0.0563.  The rate is held in ten-thousandths.     *)
(***************************************************************************)
RateHalfUp(pit, net_profit) ==
    LET rate == DecimalDigits(pit, net_profit, 4)
    IN IF 2 * rate[2] >= net_profit THEN rate[1] + 1 ELSE rate[1]

C15_EffectiveRateHalfUp ==
    tax_summary # <<>> =>
        LET summary == tax_summary[1]
        IN IF summary.net_profit = 0
           THEN summary.effective_tax_rate = 0
           ELSE summary.effective_tax_rate
                    = RateHalfUp(summary.estimated_income_tax, summary.net_profit)

(***************************************************************************)
(* C16.  calculate_personal_income_tax is non-decreasing in its input:     *)
(* for all incomes x <= y in minor units PIT(x) <= PIT(y), across the      *)
(* exemption threshold and every bracket boundary and after rounding to    *)
(* minor units.                                                            *)
(***************************************************************************)
C16_TaxNonDecreasing ==
    tax_result # <<>> =>
        \A x \in TaxIncomes :
            DecLe(x, taxable_income) =>
                calculate_personal_income_tax(x) <= tax_result[1]

\* the tax on an income one kobo above the first bracket boundary, with a
\* smaller tax on an income below the boundary and no tax on one below the
\* exemption threshold
C16_Witness ==
    /\ taxable_income = <<3000000, 1>>
    /\ tax_result # <<>>
    /\ calculate_personal_income_tax(<<3000000, 0>>) <= tax_result[1]
    /\ calculate_personal_income_tax(<<2999999, 99>>) <= tax_result[1]
    /\ calculate_personal_income_tax(<<2999999, 0>>) < tax_result[1]
    /\ calculate_personal_income_tax(<<799999, 99>>) = 0
    /\ tax_result[1] > 0

(***************************************************************************)
(* C17.  At the exemption threshold and at every bracket boundary b the    *)
(* tax added by the next minor unit above b is at least the tax added by   *)
(* the last minor unit up to b: PIT(b+1) - PIT(b) >= PIT(b) - PIT(b-1).    *)
(* One kobo adds less than half a kobo of tax at every rate, so the same   *)
(* is checked for a step of one naira, on which the rates show.            *)
(***************************************************************************)
\* the incomes, in naira, at which the rate changes
BandBoundaries ==
    {PIT_EXEMPT_THRESHOLD} \cup
    {PIT_EXEMPT_THRESHOLD + PERSONAL_INCOME_TAX_BANDS_2026[i][1] :
        i \in {j \in DOMAIN PERSONAL_INCOME_TAX_BANDS_2026 :
                  PERSONAL_INCOME_TAX_BANDS_2026[j][1] # Infinity}}

C17_MarginalNonDecreasing ==
    (tax_result # <<>> /\ taxable_income[1] \in BandBoundaries
        /\ taxable_income[2] = 0) =>
        LET b == taxable_income[1]
            at == tax_result[1]
        IN /\ calculate_personal_income_tax(<<b, 1>>) - at
                  >= at - calculate_personal_income_tax(<<b - 1, 99>>)
           /\ calculate_personal_income_tax(<<b + 1, 0>>) - at
                  >= at - calculate_personal_income_tax(<<b - 1, 0>>)

\* at the boundary of 3,000,000 the naira below adds 15 kobo of tax and the
\* naira above 18
C17_Witness ==
    /\ taxable_income = <<3000000, 0>>
    /\ tax_result = <<33000000>>
    /\ calculate_personal_income_tax(<<3000001, 0>>) - tax_result[1] = 18
    /\ tax_result[1] - calculate_personal_income_tax(<<2999999, 0>>) = 15

(***************************************************************************)
(* C18.  In business mode inventory_purchases is the sum of the            *)
(* non-deleted in-range expenses with subtype inventory, and               *)
(* operating_expenses the sum of those with subtype operating plus those   *)
(* with no subtype set (null); an income transaction's expense subtype is  *)
(* ignored: it counts as sales and as nothing else.                        *)
(***************************************************************************)
\* reference total: total_amount of the rows 1..n of the statement's ledger
\* (the user's non-deleted rows of the business dated in the range) with
\* the given type and a subtype among the given ones, summed row by row
RECURSIVE RefKindTotal(_, _, _, _, _, _, _, _)
RefKindTotal(txs, n, user, start_date, end_date, business_id, transaction_type, subtypes) ==
    IF n = 0 THEN 0
    ELSE RefKindTotal(txs, n - 1, user, start_date, end_date, business_id,
                      transaction_type, subtypes)
         + (IF /\ txs[n].user = user
               /\ ~txs[n].is_deleted
               /\ start_date <= txs[n].date /\ txs[n].date <= end_date
               /\ txs[n].business = business_id
               /\ txs[n].transaction_type = transaction_type
               /\ txs[n].expense_type \in subtypes
            THEN txs[n].total_amount ELSE 0)

C18_ExpenseSplit ==
    \A u \in Users, s \in Dates, e \in Dates, b \in BusinessIds :
        LET r == PL(u, s, e, b)
            n == Len(transactions)
        IN Mode(u, b) = "business" =>
               /\ r.inventory_purchases
                      = RefKindTotal(transactions, n, u, s, e, b, "expense",
                                     {"inventory"})
               /\ r.operating_expenses
                      = RefKindTotal(transactions, n, u, s, e, b, "expense",
                                     {"operating"})
                        + RefKindTotal(transactions, n, u, s, e, b, "expense",
                                       {NULL})
               /\ r.total_sales
                      = RefKindTotal(transactions, n, u, s, e, b, "income",
                                     ExpenseTypes)

\* an income marked inventory beside an untyped expense, in one business and
\* one day: the income is the sales, the expense the operating expenses, and
\* nothing was purchased
C18_Witness ==
    \E i \in DOMAIN transactions, j \in DOMAIN transactions :
        LET income == transactions[i]
            expense == transactions[j]
            r == PL("A", income.date, income.date, income.business)
        IN /\ income.transaction_type = "income"
           /\ income.expense_type = "inventory"
           /\ expense.transaction_type = "expense"
           /\ expense.expense_type = NULL
           /\ income.business # NoBusiness
           /\ expense.business = income.business
           /\ expense.date = income.date
           /\ ~income.is_deleted /\ ~expense.is_deleted
           /\ income.total_amount > 0 /\ expense.total_amount > 0
           /\ Mode("A", income.business) = "business"
           /\ r.total_sales = income.total_amount
           /\ r.inventory_purchases = 0
           /\ r.operating_expenses = expense.total_amount

(***************************************************************************)
(* C19.  Empty result sets.  When no non-deleted transaction of the owner  *)
(* matches the date or the range, and no inventory snapshot exists,        *)
(* daily_summary, date_range_summary and profit_and_loss each return a     *)
(* complete record in which every monetary field is zero: the None of an   *)
(* aggregate over no rows does not reach the arithmetic.                   *)
(***************************************************************************)
NoneMatches(user, start_date, end_date) ==
    ~\E i \in DOMAIN transactions :
        /\ transactions[i].user = user
        /\ ~transactions[i].is_deleted
        /\ start_date <= transactions[i].date
        /\ transactions[i].date <= end_date

C19_EmptyIsZero ==
    \A u \in Users, s \in Dates, e \in Dates, b \in RequestBusinessIds :
        (NoneMatches(u, s, e) /\ inventory = {}) =>
            LET daily == daily_summary(transactions, u, s, b)
                range == date_range_summary(transactions, u, s, e, b)
                pl == PL(u, s, e, b)
            IN /\ s = e =>
                      /\ DOMAIN daily = {"date", "currency", "total_income",
                                         "total_expense", "net_cash"}
                      /\ daily.total_income = 0
                      /\ daily.total_expense = 0
                      /\ daily.net_cash = 0
               /\ DOMAIN range = {"start_date", "end_date", "currency",
                                  "total_income", "total_expense", "net_profit"}
               /\ range.total_income = 0
               /\ range.total_expense = 0
               /\ range.net_profit = 0
               /\ DOMAIN pl = {"start_date", "end_date", "currency",
                               "total_sales", "opening_stock",
                               "inventory_purchases", "closing_stock", "cogs",
                               "operating_expenses", "gross_profit", "net_profit"}
               /\ pl.total_sales = 0
               /\ pl.opening_stock = 0
               /\ pl.inventory_purchases = 0
               /\ pl.closing_stock = 0
               /\ pl.cogs = 0
               /\ pl.operating_expenses = 0
               /\ pl.gross_profit = 0
               /\ pl.net_profit = 0

\* owner A's only entry on day 1 is soft-deleted with a positive total, and
\* owner B has an entry on that day: nothing of A matches day 1 and A's
\* daily summary is all zero
C19_Witness ==
    \E i \in DOMAIN transactions, j \in DOMAIN transactions :
        /\ transactions[i].user = "A" /\ transactions[i].is_deleted
        /\ transactions[i].total_amount > 0 /\ transactions[i].date = 1
        /\ transactions[j].user = "B" /\ ~transactions[j].is_deleted
        /\ transactions[j].total_amount > 0 /\ transactions[j].date = 1
        /\ NoneMatches("A", 1, 1)
        /\ inventory = {}
        /\ daily_summary(transactions, "A", 1, NoBusiness).net_cash = 0
        /\ PL("A", 1, 1, NoBusiness).net_profit = 0

(***************************************************************************)
(* C20.  A range summary or profit-and-loss request with start > end is    *)
(* rejected with a validation error before any aggregation runs: the       *)
(* response is a 400 that names the two dates and carries no summary       *)
(* record, not even an all-zero one.  The tax request derives its period   *)
(* from a year or a month, whose start is never after its end.             *)
(***************************************************************************)
C20_ReversedRangeRejected ==
    /\ \A u \in Users, s \in Dates, e \in Dates, b \in RequestBusinessIds :
           s > e =>
               LET range == SummaryViewSet_range(transactions, u, <<s>>, <<e>>, b)
                   pl == SummaryViewSet_profit_loss(transactions, businesses,
                                                    inventory, u, <<s>>, <<e>>, b)
               IN /\ range.status = 400
                  /\ "data" \notin DOMAIN range
                  /\ range.error = "start_date must be before or equal to end_date"
                  /\ pl.status = 400
                  /\ "data" \notin DOMAIN pl
                  /\ pl.error = "start_date must be before or equal to end_date"
    /\ \A period \in TaxPeriods : PeriodStart(period) <= PeriodEnd(period)

\* owner A has income on both days: the range from day 2 to day 1 is
\* rejected, the range from day 1 to day 2 is answered with the income
C20_Witness ==
    \E i \in DOMAIN transactions, j \in DOMAIN transactions :
        /\ transactions[i].user = "A" /\ transactions[j].user = "A"
        /\ transactions[i].date = 1 /\ transactions[j].date = 2
        /\ transactions[i].transaction_type = "income"
        /\ transactions[j].transaction_type = "income"
        /\ ~transactions[i].is_deleted /\ ~transactions[j].is_deleted
        /\ transactions[i].total_amount > 0 /\ transactions[j].total_amount > 0
        /\ SummaryViewSet_range(transactions, "A", <<2>>, <<1>>, NoBusiness).status = 400
        /\ LET answered == SummaryViewSet_range(transactions, "A", <<1>>, <<2>>,
                                                NoBusiness)
           IN /\ answered.status = 200
              /\ answered.data.total_income
                     = KoboToNaira(transactions[i].total_amount
                                   + transactions[j].total_amount)

(***************************************************************************)
(* C21.  A range summary, profit-and-loss or tax request that names a      *)
(* business which does not exist is rejected with a 400 that carries an    *)
(* error and no computed record, not even an all-zero one.                 *)
(***************************************************************************)
C21_UnknownBusinessRejected ==
    \A u \in Users, s \in Dates, e \in Dates, b \in BusinessIds :
        (b \notin DOMAIN businesses /\ s <= e) =>
            LET range == SummaryViewSet_range(transactions, u, <<s>>, <<e>>, b)
                pl == SummaryViewSet_profit_loss(transactions, businesses,
                                                 inventory, u, <<s>>, <<e>>, b)
            IN /\ range.status = 400
               /\ "data" \notin DOMAIN range
               /\ pl.status = 400
               /\ "data" \notin DOMAIN pl
               /\ \A period \in TaxPeriods, vat_enabled \in BOOLEAN :
                      LET tax == TaxView_get(transactions, businesses, inventory,
                                             u, period, b, vat_enabled)
                      IN tax.status = 400 /\ "data" \notin DOMAIN tax

(***************************************************************************)
(* C22.  After a transaction or a line item of an owner has been created,  *)
(* updated or deleted, no cached read of that owner returns a response     *)
(* computed before the change: whatever has been written, the listing and  *)
(* the figures a read returns are those of the table as it is now.         *)
(***************************************************************************)
C22_NoStaleCachedRead ==
    \A u \in Users :
        /\ \A params \in ListParams :
               TransactionView_response(cache, transactions, u, params).data
                   = TransactionListData(transactions, u, params)
        /\ SummaryView_response(cache, transactions, u).data
               = SummaryData(transactions, u)

(***************************************************************************)
(* C23.  The version counter of an owner only grows: the step in which a   *)
(* call of increment_user_cache_version returns leaves the counter         *)
(* strictly greater than it was when that call began, whatever other calls *)
(* for the same owner ran in between and also when the key was missing.    *)
(***************************************************************************)
C23_VersionGrows ==
    [][\A w \in Workers :
          (requests[w].pc # "returned" /\ requests'[w].pc = "returned") =>
              CurrentVersion(cache', requests[w].user_id) > requests[w].began]_vars

(***************************************************************************)
(* C24.  Deleting a transaction through the API never removes the record:  *)
(* after the delete the table has as many rows as before, the transaction  *)
(* still exists with is_deleted true, its line items are the ones it had,  *)
(* and the owner's listing no longer shows it.                             *)
(***************************************************************************)
C24_SoftDeleteKeepsRecord ==
    [][\A pk \in 1..MaxTx :
          perform_destroy("A", pk) =>
              /\ Len(transactions') = Len(transactions)
              /\ pk \in DOMAIN transactions'
              /\ transactions'[pk].is_deleted = TRUE
              /\ transactions'[pk].items = transactions[pk].items
              /\ pk \notin TransactionViewSet_list(transactions', "A")
              /\ TransactionViewSet_retrieve(transactions', "A", pk).status = 404]_vars

\* a transaction with two line items has been deleted: it is still in the
\* table with both items and is not listed, while another one is
C24_Witness ==
    \E pk \in DOMAIN transactions, other \in DOMAIN transactions :
        /\ transactions[pk].user = "A"
        /\ transactions[pk].is_deleted
        /\ Len(transactions[pk].items) = 2
        /\ pk \notin TransactionViewSet_list(transactions, "A")
        /\ other \in TransactionViewSet_list(transactions, "A")

(***************************************************************************)
(* C25.  A soft-deleted transaction can be restored by its owner: restore  *)
(* called by the owner on a transaction whose is_deleted is true answers   *)
(* 200 and leaves it with is_deleted false, listed again.                  *)
(***************************************************************************)
C25_RestoreUndeletes ==
    \A pk \in DOMAIN transactions :
        transactions[pk].is_deleted =>
            LET restored == TransactionViewSet_restore(transactions,
                                                       transactions[pk].user, pk)
            IN /\ restored.status = 200
               /\ restored.transactions[pk].is_deleted = FALSE
               /\ pk \in TransactionViewSet_list(restored.transactions,
                                                 transactions[pk].user)

(***************************************************************************)
(* C26.  A password-reset token resets the password at most once: no two   *)
(* confirm requests that carried the same token (the same jti) are both    *)
(* answered with success, also when the second one validated before the    *)
(* first one burned the token.                                             *)
(***************************************************************************)
C26_TokenResetsOnce ==
    \A v \in Workers, w \in Workers :
        (/\ v # w
         /\ requests[v].op = "password_reset_confirm"
         /\ requests[w].op = "password_reset_confirm"
         /\ requests[v].pc = "returned" /\ requests[w].pc = "returned"
         /\ requests[v].status = 200 /\ requests[w].status = 200)
        => requests[v].jti # requests[w].jti

(***************************************************************************)
(* C27.  For each issued pin at most one verify request succeeds and       *)
(* exactly one token is minted, however the verify requests that carry the *)
(* right pin interleave.  Step by step: a verify request succeeds only on  *)
(* a row that was not used, and leaves it used with one new token whose    *)
(* jti no earlier token carries; no other step mints a token; a used row   *)
(* becomes unused only when a new pin is issued; and a verify request that *)
(* starts on a used row is rejected.                                       *)
(***************************************************************************)
VerifySucceeds(w) ==
    /\ requests[w].op = "password_otp_verify"
    /\ requests[w].pc = "save"
    /\ requests'[w].pc = "returned"
    /\ requests'[w].status = 200

C28_SoftDeleteKeepsTotal ==
    [][\A pk \in 1..MaxTx :
          perform_destroy("A", pk) =>
              /\ transactions'[pk].total_amount = transactions[pk].total_amount
              /\ transactions'[pk].items = transactions[pk].items]_vars

(***************************************************************************)
(* C29.  In business mode every expense of the statement (the user's rows  *)
(* of the business that are not deleted and dated in the range) is counted *)
(* exactly once: inventory_purchases + operating_expenses is the sum of    *)
(* total_amount over all of them, whichever expense_type the row stores:   *)
(* operating, inventory, NULL or blank.                                    *)
(***************************************************************************)
C29_EveryExpenseCounted ==
    \A u \in Users, s \in Dates, e \in Dates, b \in BusinessIds :
        LET r == PL(u, s, e, b)
        IN Mode(u, b) = "business" =>
               r.inventory_purchases + r.operating_expenses
                   = RefKindTotal(transactions, Len(transactions), u, s, e, b,
                                  "expense", ExpenseTypes)

(***************************************************************************)
(* C30.  A pin accepts at most MAX_ATTEMPTS wrong guesses: once the row of *)
(* the user records MAX_ATTEMPTS attempts, validate lets no verify request *)
(* through to save, not even one that carries the right pin, until a new   *)
(* pin is issued.                                                          *)
(***************************************************************************)
C30_LockedAfterMaxAttempts ==
    [][\A w \in Workers :
          (/\ Free(w)
           /\ requests'[w] # requests[w]
           /\ requests'[w].op = "password_otp_verify"
           /\ "A" \in DOMAIN password_reset_otps
           /\ password_reset_otps["A"].attempts >= MAX_ATTEMPTS) =>
              requests'[w].pc # "save"]_vars

====
